---- MODULE Spec2Model ----
(***************************************************************************)
(* ClawX arena core: the hash-chained ledger (services/ledger_service.py), *)
(* the market service (services/market_service.py) and the tick engine     *)
(* (bot_runner.execute_tick), run by two independent drivers               *)
(* (scripts/run_ticker.py and scripts/drive_economy.py) against one        *)
(* READ COMMITTED database.                                                *)
(*                                                                         *)
(* Money is counted in units of 0.0001 credit (1 credit = 10000).          *)
(* A transaction (SQLAlchemy session) reads committed rows plus its own    *)
(* pending rows; pending rows are flushed before every statement           *)
(* (autoflush) and at commit.  A flushed UPDATE of a bots row holds the    *)
(* row lock until the transaction ends; an INSERT of a ledger row whose    *)
(* (bot_id, sequence) is held by another open transaction waits for it,    *)
(* and fails (IntegrityError) when a committed row has the key.            *)
(***************************************************************************)
EXTENDS Integers, Sequences, FiniteSets, TLC

\* ---------------------------------------------------------------- bounds
\* ticks started in all: by the two racing drivers, by the lone ticker
MaxTicks == 2
MaxSoloTicks == 3
MaxFaults == 1
MaxWagers == 1
\* longest idle streak handed to calculate_entropy_fee
MaxStreak == 60
\* ticks of the idling ticker: two more than the window of get_idle_streak
MaxIdleTicks == 102

\* ------------------------------------------------------ program constants
ENTROPY_BASE == 5000
ENTROPY_IDLE_PENALTY == 2500
IDLE_PENALTY_INTERVAL == 5
MAX_ENTROPY_FEE == 30000
ENTROPY_FEE == ENTROPY_BASE
MAX_MARKETS_PER_TICK == 3
MIN_PORTFOLIO_BALANCE == 50000
RESEARCH_STAKE == 10000
TOOL_LOOKUP_FEE == 5000
RESEARCH_BOUNTY == 250000
MIN_WAGER_FLOOR == 50000
MIN_STAKE == 100
STREAK_WINDOW == 100

\* MAX_TOTAL_STAKE_RATIO = 0.20, CONFIDENCE_FLOOR = 0.65,
\* STAKE_COEFFICIENT = 0.15, RESEARCH_CONFIDENCE_FLOOR = 0.50 and the 10%
\* wager cap, as percentages.
MAX_TOTAL_STAKE_RATIO == 20
CONFIDENCE_FLOOR == 65
STAKE_COEFFICIENT == 15
RESEARCH_CONFIDENCE_FLOOR == 50
WAGER_CAP_RATIO == 10

\* bot ids
Agents == {1}
Drivers == {"ticker", "drive"}
MarketIds == {"m1", "m2"}
Modes == {"observe", "enforce"}
\* initial grants handed to genesis: 0.20, 0.50 (= one base fee) and 10.00
GrantAmounts == {2000, 5000, 100000}
\* amount of the gateway wager of the concurrency test (10.00 there)
WagerAmounts == {10000}
\* confidences (percent) the language model may report
Confidences == {40, 80}
\* wager_amount values the language model may propose
RawWagers == {10000}

ZeroHash == <<>>

Max(a, b) == IF a >= b THEN a ELSE b
Min(a, b) == IF a <= b THEN a ELSE b

VARIABLES
    mode,        \* ENFORCEMENT_MODE of the processes
    bots,        \* committed bots rows: status "NONE" = no such row
    ledger,      \* committed ledger rows
    markets,     \* committed markets rows
    predictions, \* committed market_predictions rows
    tk,          \* per driver: the execute_tick invocation in progress
    queue,       \* per driver: bots enumerated for the current cycle
    nextTick,    \* tick ids handed out so far
    faults,      \* database faults injected so far
    wagers,      \* gateway wagers made so far
    daemon,      \* run_ticker.py: the frame of run_daemon
    maker,       \* market_maker.py: the frame of ensure_open_markets
    lookup       \* feed_ingestor.py: the frame of wikipedia_lookup

vars == <<mode, bots, ledger, markets, predictions, tk, queue, nextTick,
          faults, wagers, daemon, maker, lookup>>

\* ------------------------------------------------------------ references
Ref(tick, tag, arg) == [tick |-> tick, tag |-> tag, arg |-> arg]

\* ----------------------------------------------------- ledger_service.py
Sha256(payload) == <<payload>>

RECURSIVE SumAmounts(_)
SumAmounts(S) ==
    IF S = {} THEN 0
    ELSE LET e == CHOOSE x \in S : TRUE
         IN  e.amount + SumAmounts(S \ {e})

\* the select without its WHERE bot_id clause
ChainOfAnyBot(rows, bot_id) == rows

ChainOf(rows, bot_id) == {e \in rows : e.bot_id = bot_id}

\* SELECT ... ORDER BY sequence DESC LIMIT 1
TipOf(rows, bot_id) ==
    LET c == ChainOf(rows, bot_id)
    IN  CHOOSE e \in c : \A f \in c : f.sequence <= e.sequence

\* append_ledger_entry linking every entry to the zero hash
append_unlinked(rows, bot_id, amount, transaction_type, reference_id) ==
    LET has == ChainOf(rows, bot_id) # {}
        next_sequence == IF has THEN TipOf(rows, bot_id).sequence + 1 ELSE 1
        payload == [bot_id |-> bot_id, amount |-> amount,
                    transaction_type |-> transaction_type,
                    reference_id |-> reference_id,
                    previous_hash |-> ZeroHash,
                    sequence |-> next_sequence]
    IN  [bot_id |-> bot_id, amount |-> amount,
         transaction_type |-> transaction_type,
         reference_id |-> reference_id,
         previous_hash |-> ZeroHash,
         hash |-> Sha256(payload),
         sequence |-> next_sequence]

append_ledger_entry(rows, bot_id, amount, transaction_type, reference_id) ==
    LET has == ChainOf(rows, bot_id) # {}
        previous_hash == IF has THEN TipOf(rows, bot_id).hash ELSE ZeroHash
        next_sequence == IF has THEN TipOf(rows, bot_id).sequence + 1 ELSE 1
        payload == [bot_id |-> bot_id, amount |-> amount,
                    transaction_type |-> transaction_type,
                    reference_id |-> reference_id,
                    previous_hash |-> previous_hash,
                    sequence |-> next_sequence]
    IN  [bot_id |-> bot_id, amount |-> amount,
         transaction_type |-> transaction_type,
         reference_id |-> reference_id,
         previous_hash |-> previous_hash,
         hash |-> Sha256(payload),
         sequence |-> next_sequence]

get_balance(rows, bot_id) == SumAmounts(ChainOf(rows, bot_id))

\* ----------------------------------------------------------- bot_runner.py
\* calculate_entropy_fee without its cap
calculate_entropy_fee_uncapped(idle_streak) ==
    LET penalty_tiers == idle_streak \div IDLE_PENALTY_INTERVAL
    IN  ENTROPY_BASE + (ENTROPY_IDLE_PENALTY * penalty_tiers)

calculate_entropy_fee(idle_streak) ==
    LET penalty_tiers == idle_streak \div IDLE_PENALTY_INTERVAL
        fee == ENTROPY_BASE + (ENTROPY_IDLE_PENALTY * penalty_tiers)
    IN  Min(fee, MAX_ENTROPY_FEE)

\* get_idle_streak that does not stop at the entry that breaks the streak
get_idle_streak_inclusive(rows, bot_id) ==
    LET c == ChainOf(rows, bot_id)
        top == IF c = {} THEN 0 ELSE TipOf(rows, bot_id).sequence
        recent == {e \in c : e.sequence > top - STREAK_WINDOW}
        breaks == {e.sequence : e \in {x \in recent :
                                        x.transaction_type # "HEARTBEAT"}}
        lastBreak == IF breaks = {} THEN Max(top - STREAK_WINDOW, 0)
                     ELSE CHOOSE s \in breaks : \A r \in breaks : r <= s
    IN  Cardinality({e \in recent : e.sequence >= lastBreak})

get_idle_streak(rows, bot_id) ==
    LET c == ChainOf(rows, bot_id)
        top == IF c = {} THEN 0 ELSE TipOf(rows, bot_id).sequence
        recent == {e \in c : e.sequence > top - STREAK_WINDOW}
        breaks == {e.sequence : e \in {x \in recent :
                                        x.transaction_type # "HEARTBEAT"}}
        lastBreak == IF breaks = {} THEN Max(top - STREAK_WINDOW, 0)
                     ELSE CHOOSE s \in breaks : \A r \in breaks : r <= s
    IN  Cardinality({e \in recent : e.sequence > lastBreak})

\* ------------------------------------------------- sessions (transactions)
Range(f) == {f[i] : i \in DOMAIN f}
Keys(S) == {<<e.bot_id, e.sequence>> : e \in S}
Other(d) == CHOOSE o \in Drivers : o # d

NoAnswer == [answer |-> "", confidence |-> 0, tool_fee_charged |-> FALSE,
             market |-> ""]

\* execute_tick's locals and its session, before the tick starts
NoTick ==
    [pc |-> "idle", bot_id |-> 0, tick_id |-> 0,
     loaded |-> FALSE, loaded_balance |-> 0,
     current_balance |-> 0, idle_streak |-> 0, tick_entropy_fee |-> 0,
     strategy_action |-> "None", research_attempted |-> FALSE,
     research_market_ids |-> {}, answer |-> NoAnswer,
     max_total_stake |-> 0, total_staked |-> 0, bets_placed |-> 0,
     portfolio |-> <<>>, ledger_written |-> FALSE,
     entries |-> <<>>, nflushed |-> 0, dirty |-> FALSE, locked |-> FALSE,
     bal_set |-> FALSE, new_balance |-> 0, dead_set |-> FALSE,
     preds |-> {}, resolved |-> {}, market_outcome |-> "",
     listed |-> FALSE, result |-> "", lookup_id |-> FALSE,
     broken |-> FALSE,
     tx_type |-> "", fee_amount |-> 0,
     reason |-> "", ret |-> "", wrote |-> 0, err |-> FALSE, event |-> ""]

\* the ticker daemon, the market maker and the knowledge lookup when they
\* are not running
NoDaemon == [pc |-> "off", shutdown |-> FALSE, frame |-> "", cycle |-> 0,
             slept |-> 0]
NoMaker == [pc |-> "off", min_open |-> 0, current_count |-> 0, created |-> 0,
            attempts |-> 0, max_attempts |-> 0, added |-> <<>>]
NoLookup == [pc |-> "off", max_retries |-> 0, base_backoff |-> 0, attempt |-> 0,
             requests |-> 0, fallbacks |-> 0, responses |-> <<>>,
             waits |-> <<>>, result |-> ""]

Active(t) == t.pc \notin {"idle", "done"}
Unflushed(t) == {t.entries[i] : i \in (t.nflushed + 1)..Len(t.entries)}
FlushedRows(t) == {t.entries[i] : i \in 1..t.nflushed}

\* rows a statement of the session sees: committed plus its own
Visible(t) == ledger \cup Range(t.entries)

\* the statement of driver d must wait for another open transaction: for
\* the bots row lock, or for a ledger key the other one has inserted
Blocked(d) ==
    LET t == tk[d]
        o == tk[Other(d)]
    IN  /\ Active(o)
        /\ \/ /\ t.dirty /\ ~t.locked
              /\ o.locked /\ o.bot_id = t.bot_id
           \/ Keys(Unflushed(t)) \cap Keys(FlushedRows(o)) # {}

\* the ledger table without its unique constraint
NoConstraint(t) == FALSE

\* UniqueConstraint("bot_id", "sequence") of models.Ledger
UniqueViolation(t) == Keys(Unflushed(t)) \cap Keys(ledger) # {}

\* autoflush: pending rows are written, the bots row lock is taken
Flush(t) == [t EXCEPT !.nflushed = Len(t.entries),
                      !.locked = t.locked \/ t.dirty]

\* the session after a rollback (a failed flush rolls it back at once)
Rollback(t) ==
    [t EXCEPT !.entries = <<>>, !.nflushed = 0, !.dirty = FALSE,
              !.locked = FALSE, !.bal_set = FALSE, !.dead_set = FALSE,
              !.preds = {}, !.resolved = {}, !.market_outcome = ""]

\* execute_tick has returned: only the outcome is kept
Done(t, ret, reason, wrote) ==
    [NoTick EXCEPT !.pc = "done", !.bot_id = t.bot_id,
                   !.tick_id = t.tick_id, !.loaded = t.loaded,
                   !.ret = ret, !.reason = reason, !.wrote = wrote,
                   !.err = t.err, !.lookup_id = t.lookup_id,
                   !.ledger_written = t.ledger_written]

\* publish_tick_event(bot_id, event): the outcome announced for the tick
Published(t, event) == [t EXCEPT !.event = event]

\* an observe-mode liquidation that returns as the enforce branch does
ObserveLiquidationLoud(t) ==
    Published(Done(t, "LIQUIDATION", "", 0), "LIQUIDATION")

\* bot_runner.py 240-251: the phantom liquidation of observe mode
ObserveLiquidation(t) ==
    Published(Done(t, "HEARTBEAT", "", 0), "LIQUIDATION_OBSERVED")

\* an error boundary that announces the tick it could not account for
ErrorBoundaryAnnounced(t, reason) ==
    IF mode = "enforce" /\ ~t.ledger_written
    THEN [Rollback(t) EXCEPT !.pc = "err_load", !.reason = reason,
                             !.broken = FALSE, !.err = TRUE]
    ELSE Published(Done(t, "HEARTBEAT", reason, 0), "HEARTBEAT")

\* bot_runner.py 601-658: the error boundary of execute_tick
ErrorBoundary(t, reason) ==
    IF mode = "enforce" /\ ~t.ledger_written
    THEN [Rollback(t) EXCEPT !.pc = "err_load", !.reason = reason,
                             !.broken = FALSE, !.err = TRUE]
    ELSE Done(t, "HEARTBEAT", reason, 0)

\* ------------------------------------------ execute_tick's control flow
\* where the tick goes next; steps that issue no statement are passed
\* through at once
\* STEP 5, observe: no entry; the cache follows the stakes of this tick
ObserveFinal(t) ==
    IF t.total_staked > 0 \/ t.research_attempted
    THEN [t EXCEPT !.dirty = TRUE, !.bal_set = TRUE,
                   !.new_balance = t.current_balance - t.total_staked,
                   !.pc = "commit"]
    ELSE [t EXCEPT !.dirty = TRUE, !.pc = "commit"]

\* the finalisation charging entropy whatever the mode
HbPrepareAlways(t) ==
    [t EXCEPT !.dirty = TRUE, !.bal_set = TRUE,
              !.new_balance = t.current_balance - t.tick_entropy_fee
                                 - t.total_staked,
              !.pc = "hb_append"]

\* STEP 5, enforce: bot.balance is set, then the HEARTBEAT is appended
HbPrepare(t) ==
    IF mode = "enforce"
    THEN [t EXCEPT !.dirty = TRUE, !.bal_set = TRUE,
                   !.new_balance = t.current_balance - t.tick_entropy_fee
                                      - t.total_staked,
                   !.pc = "hb_append"]
    ELSE ObserveFinal(t)

\* a finalisation that charges no entropy once bets were placed
ToHeartbeatIdleOnly(t) ==
    IF t.bets_placed > 0 THEN ObserveFinal(t)
    ELSE IF t.research_attempted THEN [t EXCEPT !.pc = "hb_reread"]
    ELSE HbPrepare(t)

\* STEP 5 begins: the balance is read again after research
ToHeartbeat(t) ==
    IF t.research_attempted THEN [t EXCEPT !.pc = "hb_reread"]
    ELSE HbPrepare(t)

\* STEP 4 is entered only without bets, without research, without WAIT
ToWager(t) ==
    IF t.bets_placed = 0 /\ ~t.research_attempted
       /\ t.strategy_action # "WAIT"
    THEN [t EXCEPT !.pc = "wager"]
    ELSE ToHeartbeat(t)

\* STEP 3 is entered unless the strategy skips it or the balance is low
ToPortfolio(t) ==
    IF t.strategy_action \in {"None", "PORTFOLIO", "RESEARCH"}
       /\ t.current_balance >= MIN_PORTFOLIO_BALANCE
    THEN [t EXCEPT !.pc = "portfolio"]
    ELSE ToWager(t)

\* bot_runner.py 368-374: the portfolio budget
Budget(t) ==
    [t EXCEPT !.total_staked = 0, !.bets_placed = 0,
              !.max_total_stake =
                  ((t.current_balance - t.tick_entropy_fee)
                     * MAX_TOTAL_STAKE_RATIO) \div 100]

\* bot_runner.py 364-366: the balance is read again only after research
AfterResearch(t) ==
    IF t.research_attempted THEN [t EXCEPT !.pc = "reread"]
    ELSE ToPortfolio(Budget(t))

\* STEP 2 is entered unless the strategy skips it or the stake is
\* unaffordable
ToResearch(t) ==
    IF t.strategy_action \in {"None", "RESEARCH"}
       /\ t.current_balance >= t.tick_entropy_fee + RESEARCH_STAKE
    THEN [t EXCEPT !.pc = "research"]
    ELSE AfterResearch(t)

ResearchPcs == {"research", "rs_submit", "rs_payout", "rs_fee"}
PortfolioPcs == {"portfolio", "pf_bet"}
ErrorPcs == {"err_load", "err_append", "err_commit"}

\* an exception raised by the statement at t.pc: the research and the
\* portfolio steps swallow it, the error path logs it, every other place
\* hands it to the error boundary
OnRaise(t, reason) ==
    LET r == [Rollback(t) EXCEPT !.broken = TRUE]
    IN  IF t.pc \in ResearchPcs THEN AfterResearch(r)
        ELSE IF t.pc \in PortfolioPcs THEN ToWager(r)
        ELSE IF t.pc \in ErrorPcs
             THEN Done(t, "HEARTBEAT", t.reason, 0)
        ELSE ErrorBoundary(r, reason)

\* the sequence of a ledger row whose sequence column is NULL: the row was
\* inserted through database.Ledger, which has no such column
NullSequence == 0

\* the statements that call append_ledger_entry
AppendPcs == {"liq_append", "rs_submit", "rs_payout", "rs_fee", "pf_bet",
              "wager_append", "hb_append", "err_append"}

\* ledger_service.py 50-58: ORDER BY sequence DESC puts a NULL sequence
\* first, and last_entry.sequence + 1 raises on it
NullTip(t) ==
    /\ t.pc \in AppendPcs
    /\ \E e \in ChainOf(Visible(t), t.bot_id) : e.sequence = NullSequence

\* what a statement raises, if anything, once it is its turn
Raises(t) ==
    IF t.broken THEN "PendingRollbackError"
    ELSE IF UniqueViolation(t) THEN "IntegrityError"
    ELSE IF NullTip(t) THEN "TypeError"
    ELSE ""

\* COMMIT of the session of t
CommitBots(t) ==
    [bots EXCEPT ![t.bot_id] =
        [status |-> IF t.dead_set THEN "DEAD" ELSE @.status,
         balance |-> IF t.bal_set /\ t.new_balance # t.loaded_balance
                     THEN t.new_balance ELSE @.balance]]

CommitMarkets(t) ==
    [m \in DOMAIN markets |->
        IF m \in t.resolved
        THEN [markets[m] EXCEPT !.status = "RESOLVED",
                                !.outcome = t.market_outcome]
        ELSE markets[m]]

\* --------------------------------------------------------------- the state
\* the markets the market maker has opened: one RESEARCH market (the enum
\* value added by migration e43e20c0ba28) and one WEATHER market
SourceType(m) == IF m = "m1" THEN "RESEARCH" ELSE "WEATHER"

TypeOK ==
    /\ mode \in Modes
    /\ nextTick \in 0..Max(MaxTicks, MaxSoloTicks)
    /\ faults \in 0..MaxFaults
    /\ wagers \in 0..MaxWagers
    /\ \A a \in Agents : bots[a].status \in {"NONE", "ALIVE", "DEAD"}

InitStore ==
    /\ mode \in Modes
    /\ bots = [a \in Agents |-> [status |-> "NONE", balance |-> 0]]
    /\ ledger = {}
    /\ markets = [m \in MarketIds |->
                    [status |-> "OPEN",
                     source_type |-> SourceType(m),
                     bounty |-> IF m = "m1" THEN RESEARCH_BOUNTY ELSE 0,
                     outcome |-> ""]]
    /\ predictions = {}
    /\ queue = [d \in Drivers |-> <<>>]
    /\ nextTick = 0
    /\ faults = 0
    /\ wagers = 0
    /\ daemon = NoDaemon
    /\ maker = NoMaker
    /\ lookup = NoLookup

Init ==
    /\ InitStore
    /\ tk = [d \in Drivers |-> NoTick]

\* scripts/genesis_bot.py, app.create_bot: bot row and GRANT in one commit
Genesis(a, amount) ==
    /\ bots[a].status = "NONE"
    /\ bots' = [bots EXCEPT ![a] = [status |-> "ALIVE", balance |-> amount]]
    /\ ledger' = ledger \cup
          {append_ledger_entry(ledger, a, amount, "GRANT",
                               Ref(0, "GENESIS_GRANT", ""))}
    /\ UNCHANGED <<mode, markets, predictions, tk, queue, nextTick,
                   faults, wagers,
                   daemon, maker, lookup>>

\* SELECT bots WHERE status = 'ALIVE' ORDER BY id, at the start of a cycle
RECURSIVE Sorted(_)
Sorted(S) ==
    IF S = {} THEN <<>>
    ELSE LET m == CHOOSE x \in S : \A y \in S : x <= y
         IN  <<m>> \o Sorted(S \ {m})

CycleStart(d, max_ticks) ==
    /\ ~Active(tk[d])
    /\ queue[d] = <<>>
    /\ nextTick < max_ticks
    /\ {a \in Agents : bots[a].status = "ALIVE"} # {}
    /\ queue' = [queue EXCEPT ![d] =
                    Sorted({a \in Agents : bots[a].status = "ALIVE"})]
    /\ UNCHANGED <<mode, bots, ledger, markets, predictions, tk, nextTick,
                   faults, wagers,
                   daemon, maker, lookup>>

\* the driver calls execute_tick for the next bot of its list
StartTick(d, max_ticks) ==
    /\ ~Active(tk[d])
    /\ queue[d] # <<>>
    /\ nextTick < max_ticks
    /\ tk' = [tk EXCEPT ![d] = [NoTick EXCEPT !.pc = "load",
                                              !.bot_id = Head(queue[d]),
                                              !.tick_id = nextTick + 1]]
    /\ queue' = [queue EXCEPT ![d] = Tail(@)]
    /\ nextTick' = nextTick + 1
    /\ UNCHANGED <<mode, bots, ledger, markets, predictions, faults, wagers,
                   daemon, maker, lookup>>

\* STEP 0: load the bot
TickLoad(d) ==
    LET t == tk[d]
        bot == bots[t.bot_id]
    IN  /\ t.pc = "load"
        /\ tk' = [tk EXCEPT ![d] =
              IF bot.status # "ALIVE"
              THEN Done(t, "HEARTBEAT", "", 0)
              ELSE [t EXCEPT !.pc = "balance", !.loaded = TRUE,
                             !.loaded_balance = bot.balance]]
        /\ UNCHANGED <<mode, bots, ledger, markets, predictions, queue,
                       nextTick, faults, wagers,
                   daemon, maker, lookup>>

\* get_balance: the ledger sum is the balance the tick works with
TickBalance(d) ==
    LET t == tk[d]
    IN  /\ t.pc = "balance"
        /\ tk' = [tk EXCEPT ![d] =
              [t EXCEPT !.pc = "streak",
                        !.current_balance = get_balance(Visible(t), t.bot_id)]]
        /\ UNCHANGED <<mode, bots, ledger, markets, predictions, queue,
                       nextTick, faults, wagers,
                   daemon, maker, lookup>>

\* the database fails the statement the tick is about to issue (the
\* connection is lost): the transaction is gone, the statement raises
TickFault(d) ==
    LET t == tk[d]
    IN  /\ Active(t)
        /\ t.pc # "wager"
        /\ faults < MaxFaults
        /\ faults' = faults + 1
        /\ tk' = [tk EXCEPT ![d] = OnRaise(t, "OperationalError")]
        /\ UNCHANGED <<mode, bots, ledger, markets, predictions, queue,
                       nextTick, wagers,
                   daemon, maker, lookup>>

\* STEP 1.5: the strategy hint of the language model (None on any failure;
\* the hint RESEARCH gates the steps exactly as None does)
StrategyActions == {"None", "PORTFOLIO", "WAGER", "WAIT"}

\* STEP 0.5, STEP 1 and STEP 1.5: idle streak, progressive fee, liquidation
\* check, strategy
TickStreak(d, hints) ==
    LET t == tk[d]
        idle_streak == get_idle_streak(Visible(t), t.bot_id)
        tick_entropy_fee == calculate_entropy_fee(idle_streak)
        u == [t EXCEPT !.idle_streak = idle_streak,
                       !.tick_entropy_fee = tick_entropy_fee]
    IN  /\ t.pc = "streak"
        /\ \E action \in hints :
              tk' = [tk EXCEPT ![d] =
                 IF t.current_balance < tick_entropy_fee
                 THEN IF mode = "enforce"
                      THEN [u EXCEPT !.pc = "liq_append", !.dirty = TRUE,
                                     !.dead_set = TRUE, !.bal_set = TRUE,
                                     !.new_balance = 0]
                      ELSE ObserveLiquidation(u)
                 ELSE ToResearch([u EXCEPT !.strategy_action = action,
                                           !.listed = TRUE])]
        /\ UNCHANGED <<mode, bots, ledger, markets, predictions, queue,
                       nextTick, faults, wagers,
                   daemon, maker, lookup>>

\* a statement of the session of driver d: it waits while Blocked, raises
\* when the flush fails or the session is unusable, else runs Body on the
\* flushed session
Statement(d, Body(_)) ==
    /\ ~Blocked(d)
    /\ tk' = [tk EXCEPT ![d] =
          IF Raises(tk[d]) # "" THEN OnRaise(tk[d], Raises(tk[d]))
          ELSE Body(Flush(tk[d]))]

Appended(t, amount, transaction_type, tag, arg) ==
    Append(t.entries,
           append_ledger_entry(Visible(t), t.bot_id, amount,
                               transaction_type, Ref(t.tick_id, tag, arg)))

\* bot_runner.py 204-231: enforce-mode liquidation
LiqAppendBody(f) ==
    [f EXCEPT !.entries = Appended(f, -f.current_balance, "LIQUIDATION",
                                 "LIQUIDATION", ""),
              !.ledger_written = TRUE, !.pc = "liq_commit"]

TickLiqAppend(d) ==
    /\ tk[d].pc = "liq_append"
    /\ Statement(d, LiqAppendBody)
    /\ UNCHANGED <<mode, bots, ledger, markets, predictions, queue,
                   nextTick, faults, wagers,
                   daemon, maker, lookup>>

\* ---------------------------------------------------- market_service.py
Deadline(m) == IF m = "m1" THEN 1 ELSE IF m = "m2" THEN 2 ELSE 3

\* markets.status as a statement of the session finds it
RowStatus(t, m) ==
    IF m \in t.resolved THEN "RESOLVED" ELSE markets[m].status

\* market.status of the Market object a select by id returns: the object
\* the listing loaded while OPEN (the session's identity map keeps its
\* attributes), changed only by this session; a session that has listed
\* nothing loads the row
MarketStatus(t, m) ==
    IF m \in t.resolved THEN "RESOLVED"
    ELSE IF t.listed THEN "OPEN"
    ELSE markets[m].status

RECURSIVE ByDeadline(_)
ByDeadline(S) ==
    IF S = {} THEN <<>>
    ELSE LET m == CHOOSE x \in S : \A y \in S : Deadline(x) <= Deadline(y)
         IN  <<m>> \o ByDeadline(S \ {m})

\* a listing that excludes only the markets with a PENDING prediction
get_active_markets_pending_only(t) ==
    LET already_bet == {p.market_id : p \in
                          {q \in predictions \cup t.preds :
                               q.bot_id = t.bot_id /\ q.status = "PENDING"}}
    IN  ByDeadline({m \in DOMAIN markets :
                       /\ RowStatus(t, m) = "OPEN"
                       /\ m \notin already_bet})

get_active_markets_for_agent(t) ==
    LET already_bet == {p.market_id : p \in
                          {q \in predictions \cup t.preds :
                               q.bot_id = t.bot_id}}
    IN  ByDeadline({m \in DOMAIN markets :
                       /\ RowStatus(t, m) = "OPEN"
                       /\ m \notin already_bet})

\* the answer the market's commitment was made from, and str.strip()
CanonicalAnswer == "42"
AnswerTexts == {" 42 ", "17"}
Strip(answer) ==
    IF answer = " 42 " THEN "42"
    ELSE IF answer = " 17 " THEN "17"
    ELSE answer
AnswerHash(m) == Sha256(CanonicalAnswer)

MarketPrediction(t, m, outcome, stake, status, payout) ==
    [market_id |-> m, bot_id |-> t.bot_id, tick_id |-> t.tick_id,
     outcome |-> outcome, stake |-> stake, status |-> status,
     payout |-> payout]

\* ------------------------------------------- STEP 2: research (bot_runner)
\* generate_research_with_tool: None, the model's own answer, or the
\* looked-up page id at confidence 0.95 with the lookup fee due; the page
\* looked up is the one whose title _extract_article_title cuts out of the
\* question (llm_client.py 454, 469-471), the market's article or another
TOOL_CONFIDENCE == 95

\* page ids the lookup may return
LookupAnswers == {CanonicalAnswer, "17"}

ResearchAnswers ==
    {[answer |-> Strip(a), confidence |-> c, tool_fee_charged |-> FALSE,
      market |-> ""] : a \in AnswerTexts, c \in Confidences}
    \cup {[answer |-> a, confidence |-> TOOL_CONFIDENCE,
           tool_fee_charged |-> TRUE, market |-> ""] :
               a \in LookupAnswers}
    \cup {NoAnswer}

FirstResearch(ms) ==
    LET idx == {i \in 1..Len(ms) : markets[ms[i]].source_type = "RESEARCH"}
    IN  IF idx = {} THEN ""
        ELSE ms[CHOOSE i \in idx : \A j \in idx : i <= j]

ResearchBody(f, ans) ==
    LET mkt == FirstResearch(get_active_markets_for_agent(f))
    IN  IF mkt = "" THEN AfterResearch(f)
        ELSE IF ans.answer # ""
                /\ ans.confidence > RESEARCH_CONFIDENCE_FLOOR
        THEN [f EXCEPT !.pc = "rs_submit", !.research_market_ids = {mkt},
                       !.lookup_id = ans.tool_fee_charged,
                       !.answer = [ans EXCEPT !.market = mkt]]
        ELSE AfterResearch([f EXCEPT !.research_market_ids = {mkt}])

TickResearch(d) ==
    /\ tk[d].pc = "research"
    /\ \E ans \in ResearchAnswers :
          LET Body(f) == ResearchBody(f, ans)
          IN  Statement(d, Body)
    /\ UNCHANGED <<mode, bots, ledger, markets, predictions, queue,
                   nextTick, faults, wagers,
                   daemon, maker, lookup>>

\* the tool_fee_charged flag of the answer is never consulted
AfterSubmitNoFee(f) ==
    [f EXCEPT !.research_attempted = TRUE, !.ledger_written = TRUE,
              !.answer = NoAnswer, !.pc = "reread"]

\* bot_runner.py 317-323: the attempt is counted, then the fee flag read
AfterSubmit(f) ==
    [f EXCEPT !.research_attempted = TRUE, !.ledger_written = TRUE,
              !.answer = IF f.answer.tool_fee_charged THEN @ ELSE NoAnswer,
              !.pc = IF f.answer.tool_fee_charged THEN "rs_fee"
                     ELSE "reread"]

\* submit_research_answer up to the hash comparison
SubmitBody(f) ==
    LET m == f.answer.market
        clean_answer == Strip(f.answer.answer)
        correct == Sha256(clean_answer) = AnswerHash(m)
        staked == [f EXCEPT !.entries = Appended(f, -RESEARCH_STAKE,
                                               "MARKET_STAKE", "RESEARCH", m)]
    IN  IF MarketStatus(f, m) # "OPEN"
        THEN AfterSubmit([f EXCEPT !.result = "CLOSED"])
        ELSE IF correct
        THEN [staked EXCEPT
                 !.resolved = @ \cup {m},
                 !.market_outcome = clean_answer,
                 !.preds = @ \cup {MarketPrediction(f, m, clean_answer,
                     RESEARCH_STAKE, "WIN",
                     markets[m].bounty + RESEARCH_STAKE)},
                 !.pc = "rs_payout"]
        ELSE AfterSubmit([staked EXCEPT
                 !.result = "WRONG",
                 !.preds = @ \cup {MarketPrediction(f, m, clean_answer,
                     RESEARCH_STAKE, "LOSS", 0)}])

TickSubmit(d) ==
    /\ tk[d].pc = "rs_submit"
    /\ Statement(d, SubmitBody)
    /\ UNCHANGED <<mode, bots, ledger, markets, predictions, queue,
                   nextTick, faults, wagers,
                   daemon, maker, lookup>>

\* a payout of the bounty without the stake
PayoutBodyBountyOnly(f) ==
    LET m == f.answer.market
    IN  AfterSubmit([f EXCEPT
            !.result = "CORRECT",
            !.entries =
               Appended(f, markets[m].bounty,
                        "RESEARCH_PAYOUT", "RESEARCH_WIN", m)])

\* submit_research_answer, CORRECT: the RESEARCH_PAYOUT entry
PayoutBody(f) ==
    LET m == f.answer.market
    IN  AfterSubmit([f EXCEPT
            !.result = "CORRECT",
            !.entries =
               Appended(f, markets[m].bounty + RESEARCH_STAKE,
                        "RESEARCH_PAYOUT", "RESEARCH_WIN", m)])

TickPayout(d) ==
    /\ tk[d].pc = "rs_payout"
    /\ Statement(d, PayoutBody)
    /\ UNCHANGED <<mode, bots, ledger, markets, predictions, queue,
                   nextTick, faults, wagers,
                   daemon, maker, lookup>>

\* bot_runner.py 323-335: the lookup surcharge
ToolFeeBody(f) ==
    [f EXCEPT !.entries = Appended(f, -TOOL_LOOKUP_FEE, "RESEARCH_LOOKUP_FEE",
                                 "TOOL_FEE", ""),
              !.answer = NoAnswer, !.pc = "reread"]

TickToolFee(d) ==
    /\ tk[d].pc = "rs_fee"
    /\ Statement(d, ToolFeeBody)
    /\ UNCHANGED <<mode, bots, ledger, markets, predictions, queue,
                   nextTick, faults, wagers,
                   daemon, maker, lookup>>

\* bot_runner.py 364-366: re-read the balance after research
RereadBody(f) ==
    ToPortfolio(Budget([f EXCEPT !.current_balance =
                                    get_balance(Visible(f), f.bot_id)]))

TickReread(d) ==
    /\ tk[d].pc = "reread"
    /\ Statement(d, RereadBody)
    /\ UNCHANGED <<mode, bots, ledger, markets, predictions, queue,
                   nextTick, faults, wagers,
                   daemon, maker, lookup>>

\* -------------------------------------------------- STEP 3: the portfolio
\* the "bets" list of the language model's reply: up to len bets on any
\* markets, repeated or not, at any confidence
LlmBets(ids, confs, len) == UNION {[1..k -> ids \X confs] : k \in 0..len}

\* the test of the validation loop without its seen_markets set
KeepBetUnseen(bet, valid_market_ids, seen_markets) ==
    /\ bet[1] \in valid_market_ids
    /\ bet[2] > CONFIDENCE_FLOOR

\* llm_client.py 360-367: a bet is kept when its market is listed, was not
\* kept before and its confidence is above 0.65
KeepBet(bet, valid_market_ids, seen_markets) ==
    /\ bet[1] \in valid_market_ids
    /\ bet[1] \notin seen_markets
    /\ bet[2] > CONFIDENCE_FLOOR

\* llm_client.py 350-380: the validation loop
RECURSIVE ValidBets(_, _, _)
ValidBets(bets, valid_market_ids, seen_markets) ==
    IF bets = <<>> THEN <<>>
    ELSE IF ~KeepBet(Head(bets), valid_market_ids, seen_markets)
    THEN ValidBets(Tail(bets), valid_market_ids, seen_markets)
    ELSE <<[market_id |-> Head(bets)[1], confidence |-> Head(bets)[2]]>>
         \o ValidBets(Tail(bets), valid_market_ids,
                      seen_markets \cup {Head(bets)[1]})

\* generate_portfolio_decision: the first max_bets bets of the reply,
\* validated ([] for an empty listing)
generate_portfolio_decision(listing, bets, max_bets) ==
    IF listing = {} THEN <<>>
    ELSE ValidBets(SubSeq(bets, 1, Min(max_bets, Len(bets))), listing, {})

\* Decimal results the model can hold exactly
Exact(n, divisor) == n % divisor = 0

PortfolioBody(f, pf) ==
    IF pf = <<>> THEN ToWager(f)
    ELSE [f EXCEPT !.portfolio = pf, !.pc = "pf_bet"]

TickPortfolio(d, max_bets, confs) ==
    LET t == tk[d]
        listed == {m \in Range(get_active_markets_for_agent(t)) :
                      m \notin t.research_market_ids}
    IN  /\ t.pc = "portfolio"
        /\ \E pf \in {generate_portfolio_decision(listed, bets, max_bets) :
                       bets \in LlmBets(DOMAIN markets, confs, max_bets + 1)} :
              /\ pf # <<>> =>
                   /\ Exact((t.current_balance - t.tick_entropy_fee)
                              * MAX_TOTAL_STAKE_RATIO, 100)
                   /\ \A i \in 1..Len(pf) :
                         Exact(t.current_balance * pf[i].confidence
                                 * STAKE_COEFFICIENT, 10000)
              /\ LET Body(f) == PortfolioBody(f, pf)
                 IN  Statement(d, Body)
        /\ UNCHANGED <<mode, bots, ledger, markets, predictions, queue,
                       nextTick, faults, wagers,
                   daemon, maker, lookup>>

\* a turn of the loop whose place_market_bet writes no MARKET_STAKE entry
BetBodyUnpaid(f) ==
    LET bet == Head(f.portfolio)
        rest == Tail(f.portfolio)
        next(g) == IF rest = <<>> THEN ToWager([g EXCEPT !.portfolio = rest])
                   ELSE [g EXCEPT !.portfolio = rest]
        stop(g) == ToWager([g EXCEPT !.portfolio = <<>>])
        raw_stake == (f.current_balance * bet.confidence * STAKE_COEFFICIENT)
                        \div 10000
        remaining_budget == f.max_total_stake - f.total_staked
        stake == Max(Min(raw_stake, remaining_budget), MIN_STAKE)
    IN  IF f.bets_placed >= MAX_MARKETS_PER_TICK THEN stop(f)
        ELSE IF bet.confidence <= CONFIDENCE_FLOOR THEN next(f)
        ELSE IF remaining_budget <= MIN_STAKE THEN stop(f)
        ELSE IF MarketStatus(f, bet.market_id) # "OPEN" THEN next(f)
        ELSE next([f EXCEPT
                !.preds = @ \cup {MarketPrediction(f, bet.market_id, "YES",
                                                   stake, "PENDING", 0)},
                !.total_staked = @ + stake,
                !.bets_placed = @ + 1,
                !.ledger_written = TRUE])

\* one turn of the loop over the bets: the caps, then place_market_bet
BetBody(f) ==
    LET bet == Head(f.portfolio)
        rest == Tail(f.portfolio)
        next(g) == IF rest = <<>> THEN ToWager([g EXCEPT !.portfolio = rest])
                   ELSE [g EXCEPT !.portfolio = rest]
        stop(g) == ToWager([g EXCEPT !.portfolio = <<>>])
        raw_stake == (f.current_balance * bet.confidence * STAKE_COEFFICIENT)
                        \div 10000
        remaining_budget == f.max_total_stake - f.total_staked
        stake == Max(Min(raw_stake, remaining_budget), MIN_STAKE)
    IN  IF f.bets_placed >= MAX_MARKETS_PER_TICK THEN stop(f)
        ELSE IF bet.confidence <= CONFIDENCE_FLOOR THEN next(f)
        ELSE IF remaining_budget <= MIN_STAKE THEN stop(f)
        ELSE IF MarketStatus(f, bet.market_id) # "OPEN" THEN next(f)
        ELSE next([f EXCEPT
                !.preds = @ \cup {MarketPrediction(f, bet.market_id, "YES",
                                                   stake, "PENDING", 0)},
                !.entries = Appended(f, -stake, "MARKET_STAKE", "MARKET",
                                     bet.market_id),
                !.total_staked = @ + stake,
                !.bets_placed = @ + 1,
                !.ledger_written = TRUE])

TickBet(d) ==
    /\ tk[d].pc = "pf_bet"
    /\ Statement(d, BetBody)
    /\ UNCHANGED <<mode, bots, ledger, markets, predictions, queue,
                   nextTick, faults, wagers,
                   daemon, maker, lookup>>

\* ------------------------------------- STEP 4: the single-wager fallback
\* generate_prediction: None, or a positive wager_amount
Predictions == {0} \cup RawWagers

WagerPrepare(t, raw_wager) ==
    LET available == t.current_balance - t.tick_entropy_fee
        wager == Max(Min(raw_wager, (available * WAGER_CAP_RATIO) \div 100),
                     MIN_STAKE)
        total_cost == IF mode = "enforce" THEN t.tick_entropy_fee + wager
                      ELSE wager
    IN  [t EXCEPT !.dirty = TRUE, !.bal_set = TRUE,
                  !.new_balance = t.current_balance - total_cost,
                  !.pc = "wager_append"]

TickWager(d) ==
    LET t == tk[d]
        min_wager_balance == t.tick_entropy_fee + MIN_WAGER_FLOOR
    IN  /\ t.pc = "wager"
        /\ \E raw_wager \in Predictions :
              IF raw_wager > 0 /\ t.current_balance >= min_wager_balance
              THEN /\ Exact((t.current_balance - t.tick_entropy_fee)
                               * WAGER_CAP_RATIO, 100)
                   /\ tk' = [tk EXCEPT ![d] = WagerPrepare(t, raw_wager)]
              ELSE tk' = [tk EXCEPT ![d] = ToHeartbeat(t)]
        /\ UNCHANGED <<mode, bots, ledger, markets, predictions, queue,
                       nextTick, faults, wagers,
                   daemon, maker, lookup>>

\* the WAGER entry of -total_cost
WagerAppendBody(f) ==
    [f EXCEPT !.entries = Appended(f, f.new_balance - f.current_balance,
                                   "WAGER", "", ""),
              !.ledger_written = TRUE,
              !.pc = "wager_commit"]

TickWagerAppend(d) ==
    /\ tk[d].pc = "wager_append"
    /\ Statement(d, WagerAppendBody)
    /\ UNCHANGED <<mode, bots, ledger, markets, predictions, queue,
                   nextTick, faults, wagers,
                   daemon, maker, lookup>>

\* ------------------------------------------ STEP 5: entropy finalisation
HbRereadBody(f) ==
    HbPrepare([f EXCEPT !.current_balance =
                           get_balance(Visible(f), f.bot_id)])

TickHbReread(d) ==
    /\ tk[d].pc = "hb_reread"
    /\ Statement(d, HbRereadBody)
    /\ UNCHANGED <<mode, bots, ledger, markets, predictions, queue,
                   nextTick, faults, wagers,
                   daemon, maker, lookup>>

\* a HEARTBEAT entry of the base fee whatever the idle streak
HeartbeatBodyFlat(f) ==
    [f EXCEPT !.entries = Appended(f, -ENTROPY_FEE, "HEARTBEAT", "", ""),
              !.ledger_written = TRUE,
              !.pc = "commit"]

\* enforce: the HEARTBEAT entry of -fee
HeartbeatBody(f) ==
    [f EXCEPT !.entries = Appended(f, -f.tick_entropy_fee, "HEARTBEAT",
                                   "", ""),
              !.ledger_written = TRUE,
              !.pc = "commit"]

TickHeartbeat(d) ==
    /\ tk[d].pc = "hb_append"
    /\ Statement(d, HeartbeatBody)
    /\ UNCHANGED <<mode, bots, ledger, markets, predictions, queue,
                   nextTick, faults, wagers,
                   daemon, maker, lookup>>

\* ------------------------------------------------------------ the commits
Outcome(t) ==
    IF t.pc = "liq_commit" THEN "LIQUIDATION"
    ELSE IF t.pc = "wager_commit" THEN "WAGER"
    ELSE IF t.pc = "err_commit" THEN "HEARTBEAT"
    ELSE IF t.bets_placed > 0 THEN "PORTFOLIO"
    ELSE IF t.research_attempted THEN "RESEARCH"
    ELSE "HEARTBEAT"

CommitPcs == {"liq_commit", "wager_commit", "commit", "err_commit"}

\* session.commit(): the last flush, then everything becomes visible
TickCommit(d) ==
    LET t == tk[d]
    IN  /\ t.pc \in CommitPcs
        /\ ~Blocked(d)
        /\ IF Raises(t) # ""
           THEN /\ tk' = [tk EXCEPT ![d] = OnRaise(t, Raises(t))]
                /\ UNCHANGED <<bots, ledger, markets, predictions,
                   daemon, maker, lookup>>
           ELSE /\ ledger' = ledger \cup Range(t.entries)
                /\ bots' = CommitBots(t)
                /\ markets' = CommitMarkets(t)
                /\ predictions' = predictions \cup t.preds
                /\ tk' = [tk EXCEPT ![d] =
                      Published(Done(t, Outcome(t), t.reason, Len(t.entries)),
                                IF t.pc = "err_commit" THEN t.tx_type
                                ELSE Outcome(t))]
        /\ UNCHANGED <<mode, queue, nextTick, faults, wagers,
                   daemon, maker, lookup>>

\* ------------------------------------- the error boundary's own session
ErrLoaded(t, bot) ==
    IF bot.balance >= ENTROPY_FEE
    THEN [t EXCEPT !.pc = "err_append", !.dirty = TRUE,
                   !.loaded_balance = bot.balance, !.bal_set = TRUE,
                   !.new_balance = bot.balance - ENTROPY_FEE,
                   !.fee_amount = -ENTROPY_FEE, !.tx_type = "HEARTBEAT"]
    ELSE [t EXCEPT !.pc = "err_append", !.dirty = TRUE,
                   !.loaded_balance = bot.balance, !.bal_set = TRUE,
                   !.new_balance = 0, !.dead_set = TRUE,
                   !.fee_amount = -bot.balance, !.tx_type = "LIQUIDATION"]

TickErrLoad(d) ==
    LET t == tk[d]
        err_bot == bots[t.bot_id]
    IN  /\ t.pc = "err_load"
        /\ tk' = [tk EXCEPT ![d] =
              IF err_bot.status = "ALIVE" THEN ErrLoaded(t, err_bot)
              ELSE Done(t, "HEARTBEAT", t.reason, 0)]
        /\ UNCHANGED <<mode, bots, ledger, markets, predictions, queue,
                       nextTick, faults, wagers,
                   daemon, maker, lookup>>

ErrAppendBody(f) ==
    [f EXCEPT !.entries =
                 IF f.tx_type = "HEARTBEAT"
                 THEN Appended(f, f.fee_amount, "HEARTBEAT", "ERROR", f.reason)
                 ELSE Appended(f, f.fee_amount, "LIQUIDATION",
                               "LIQUIDATION", ""),
              !.pc = "err_commit"]

TickErrAppend(d) ==
    /\ tk[d].pc = "err_append"
    /\ Statement(d, ErrAppendBody)
    /\ UNCHANGED <<mode, bots, ledger, markets, predictions, queue,
                   nextTick, faults, wagers,
                   daemon, maker, lookup>>

\* ------------------------ a wager made outside the tick engine
\* tests/backend/test_derived_balance_concurrency.py 41-55: load the bot,
\* bot.balance -= amount, append a WAGER entry, commit; the wager is one
\* the cached balance covers (routers/gateway.py 116-117)
Wager(a, amount) ==
    /\ wagers < MaxWagers
    /\ bots[a].status # "NONE"
    /\ bots[a].balance >= amount
    /\ \A d \in Drivers :
          Active(tk[d]) /\ tk[d].bot_id = a =>
             /\ ~tk[d].locked
             /\ append_ledger_entry(ledger, a, 0, "", "").sequence
                   \notin {e.sequence : e \in FlushedRows(tk[d])}
    /\ wagers' = wagers + 1
    /\ bots' = [bots EXCEPT ![a].balance = @ - amount]
    /\ ledger' = ledger \cup
          {append_ledger_entry(ledger, a, -amount, "WAGER",
                               Ref(0, "WAGER", ""))}
    /\ UNCHANGED <<mode, markets, predictions, tk, queue, nextTick,
                   faults,
                   daemon, maker, lookup>>

\* ----------------------------------------------------------------- system
\* scripts/run_ticker.py alone: the language model is free in its answers,
\* the database free to fail
Ticker == {"ticker"}

Next ==
    \/ \E a \in Agents, amount \in GrantAmounts : Genesis(a, amount)
    \/ \E d \in Ticker : CycleStart(d, MaxSoloTicks)
    \/ \E d \in Ticker : StartTick(d, MaxSoloTicks)
    \/ \E d \in Ticker : TickLoad(d)
    \/ \E d \in Ticker : TickBalance(d)
    \/ \E d \in Ticker : TickFault(d)
    \/ \E d \in Ticker : TickStreak(d, StrategyActions)
    \/ \E d \in Ticker : TickLiqAppend(d)
    \/ \E d \in Ticker : TickResearch(d)
    \/ \E d \in Ticker : TickSubmit(d)
    \/ \E d \in Ticker : TickPayout(d)
    \/ \E d \in Ticker : TickToolFee(d)
    \/ \E d \in Ticker : TickReread(d)
    \/ \E d \in Ticker : TickPortfolio(d, MAX_MARKETS_PER_TICK, Confidences)
    \/ \E d \in Ticker : TickBet(d)
    \/ \E d \in Ticker : TickWager(d)
    \/ \E d \in Ticker : TickWagerAppend(d)
    \/ \E d \in Ticker : TickHbReread(d)
    \/ \E d \in Ticker : TickHeartbeat(d)
    \/ \E d \in Ticker : TickCommit(d)
    \/ \E d \in Ticker : TickErrLoad(d)
    \/ \E d \in Ticker : TickErrAppend(d)

Spec == Init /\ [][Next]_vars

\* run_ticker.py and drive_economy.py side by side; the language model
\* answers PORTFOLIO and bets on at most one market
RaceHints == {"PORTFOLIO"}
RaceBets == 1

NextRace ==
    \/ \E a \in Agents, amount \in GrantAmounts : Genesis(a, amount)
    \/ \E d \in Drivers : CycleStart(d, MaxTicks)
    \/ \E d \in Drivers : StartTick(d, MaxTicks)
    \/ \E d \in Drivers : TickLoad(d)
    \/ \E d \in Drivers : TickBalance(d)
    \/ \E d \in Drivers : TickStreak(d, RaceHints)
    \/ \E d \in Drivers : TickLiqAppend(d)
    \/ \E d \in Drivers : TickPortfolio(d, RaceBets, Confidences)
    \/ \E d \in Drivers : TickBet(d)
    \/ \E d \in Drivers : TickWager(d)
    \/ \E d \in Drivers : TickWagerAppend(d)
    \/ \E d \in Drivers : TickHeartbeat(d)
    \/ \E d \in Drivers : TickCommit(d)

SpecRace == Init /\ [][NextRace]_vars

\* run_ticker.py alone beside the wager of the concurrency test
NextWager ==
    \/ \E a \in Agents, amount \in GrantAmounts : Genesis(a, amount)
    \/ \E a \in Agents, amount \in WagerAmounts : Wager(a, amount)
    \/ \E d \in Ticker : CycleStart(d, MaxSoloTicks)
    \/ \E d \in Ticker : StartTick(d, MaxSoloTicks)
    \/ \E d \in Ticker : TickLoad(d)
    \/ \E d \in Ticker : TickBalance(d)
    \/ \E d \in Ticker : TickStreak(d, RaceHints)
    \/ \E d \in Ticker : TickLiqAppend(d)
    \/ \E d \in Ticker : TickPortfolio(d, RaceBets, Confidences)
    \/ \E d \in Ticker : TickBet(d)
    \/ \E d \in Ticker : TickWager(d)
    \/ \E d \in Ticker : TickWagerAppend(d)
    \/ \E d \in Ticker : TickHeartbeat(d)
    \/ \E d \in Ticker : TickCommit(d)

SpecWager == Init /\ [][NextWager]_vars

\* run_ticker.py alone with a language model that always answers WAIT; the
\* agent is created with ten credits or with genesis_bot.py's default
IdleHints == {"WAIT"}
IdleGrants == {100000, 10000000}

NextIdle ==
    \/ \E a \in Agents, amount \in IdleGrants : Genesis(a, amount)
    \/ \E d \in Ticker : CycleStart(d, MaxIdleTicks)
    \/ \E d \in Ticker : StartTick(d, MaxIdleTicks)
    \/ \E d \in Ticker : TickLoad(d)
    \/ \E d \in Ticker : TickBalance(d)
    \/ \E d \in Ticker : TickStreak(d, IdleHints)
    \/ \E d \in Ticker : TickLiqAppend(d)
    \/ \E d \in Ticker : TickHeartbeat(d)
    \/ \E d \in Ticker : TickCommit(d)

SpecIdle == Init /\ [][NextIdle]_vars

\* run_ticker.py alone while the market maker has two knowledge markets
\* open (ensure_open_markets fills every slot from its generators)
InitKnowledge ==
    /\ mode \in Modes
    /\ bots = [a \in Agents |-> [status |-> "NONE", balance |-> 0]]
    /\ ledger = {}
    /\ markets = [m \in MarketIds |->
                    [status |-> "OPEN",
                     source_type |-> "RESEARCH",
                     bounty |-> RESEARCH_BOUNTY,
                     outcome |-> ""]]
    /\ predictions = {}
    /\ tk = [d \in Drivers |-> NoTick]
    /\ queue = [d \in Drivers |-> <<>>]
    /\ nextTick = 0
    /\ faults = 0
    /\ wagers = 0
    /\ daemon = NoDaemon
    /\ maker = NoMaker
    /\ lookup = NoLookup

NextKnowledge ==
    \/ \E a \in Agents, amount \in GrantAmounts : Genesis(a, amount)
    \/ \E d \in Ticker : CycleStart(d, MaxTicks)
    \/ \E d \in Ticker : StartTick(d, MaxTicks)
    \/ \E d \in Ticker : TickLoad(d)
    \/ \E d \in Ticker : TickBalance(d)
    \/ \E d \in Ticker : TickStreak(d, StrategyActions)
    \/ \E d \in Ticker : TickLiqAppend(d)
    \/ \E d \in Ticker : TickResearch(d)
    \/ \E d \in Ticker : TickSubmit(d)
    \/ \E d \in Ticker : TickPayout(d)
    \/ \E d \in Ticker : TickToolFee(d)
    \/ \E d \in Ticker : TickReread(d)
    \/ \E d \in Ticker : TickPortfolio(d, MAX_MARKETS_PER_TICK, Confidences)
    \/ \E d \in Ticker : TickBet(d)
    \/ \E d \in Ticker : TickWager(d)
    \/ \E d \in Ticker : TickWagerAppend(d)
    \/ \E d \in Ticker : TickHbReread(d)
    \/ \E d \in Ticker : TickHeartbeat(d)
    \/ \E d \in Ticker : TickCommit(d)

SpecKnowledge == InitKnowledge /\ [][NextKnowledge]_vars

\* the portfolio step over three event markets, with replies that repeat
\* markets and name more than max_bets of them: the solo ticker of an arena
\* without knowledge markets, on balances of 0.20, 10.00 and 100.00
PortfolioMarketIds == {"m1", "m2", "m3"}
PortfolioGrants == {2000, 100000, 1000000}
PortfolioConfidences == {66, 80}
PortfolioTicks == 1

InitPortfolio ==
    /\ mode \in Modes
    /\ bots = [a \in Agents |-> [status |-> "NONE", balance |-> 0]]
    /\ ledger = {}
    /\ markets = [m \in PortfolioMarketIds |->
                    [status |-> "OPEN", source_type |-> "WEATHER",
                     bounty |-> 0, outcome |-> ""]]
    /\ predictions = {}
    /\ tk = [d \in Drivers |-> NoTick]
    /\ queue = [d \in Drivers |-> <<>>]
    /\ nextTick = 0
    /\ faults = 0
    /\ wagers = 0
    /\ daemon = NoDaemon
    /\ maker = NoMaker
    /\ lookup = NoLookup

NextPortfolio ==
    \/ \E a \in Agents, amount \in PortfolioGrants : Genesis(a, amount)
    \/ \E d \in Ticker : CycleStart(d, PortfolioTicks)
    \/ \E d \in Ticker : StartTick(d, PortfolioTicks)
    \/ \E d \in Ticker : TickLoad(d)
    \/ \E d \in Ticker : TickBalance(d)
    \/ \E d \in Ticker : TickStreak(d, StrategyActions)
    \/ \E d \in Ticker : TickLiqAppend(d)
    \/ \E d \in Ticker : TickResearch(d)
    \/ \E d \in Ticker :
          TickPortfolio(d, MAX_MARKETS_PER_TICK, PortfolioConfidences)
    \/ \E d \in Ticker : TickBet(d)
    \/ \E d \in Ticker : TickWager(d)
    \/ \E d \in Ticker : TickWagerAppend(d)
    \/ \E d \in Ticker : TickHeartbeat(d)
    \/ \E d \in Ticker : TickCommit(d)

SpecPortfolio == InitPortfolio /\ [][NextPortfolio]_vars

\* run_ticker.py and drive_economy.py side by side on the knowledge
\* market: the language model answers RESEARCH and places no bets
ResearchHints == {"RESEARCH"}
NoBets == 0

NextResearch ==
    \/ \E a \in Agents, amount \in GrantAmounts : Genesis(a, amount)
    \/ \E d \in Drivers : CycleStart(d, MaxTicks)
    \/ \E d \in Drivers : StartTick(d, MaxTicks)
    \/ \E d \in Drivers : TickLoad(d)
    \/ \E d \in Drivers : TickBalance(d)
    \/ \E d \in Drivers : TickStreak(d, ResearchHints)
    \/ \E d \in Drivers : TickLiqAppend(d)
    \/ \E d \in Drivers : TickResearch(d)
    \/ \E d \in Drivers : TickSubmit(d)
    \/ \E d \in Drivers : TickPayout(d)
    \/ \E d \in Drivers : TickToolFee(d)
    \/ \E d \in Drivers : TickReread(d)
    \/ \E d \in Drivers : TickPortfolio(d, NoBets, Confidences)
    \/ \E d \in Drivers : TickWager(d)
    \/ \E d \in Drivers : TickWagerAppend(d)
    \/ \E d \in Drivers : TickHbReread(d)
    \/ \E d \in Drivers : TickHeartbeat(d)
    \/ \E d \in Drivers : TickCommit(d)

SpecResearch == Init /\ [][NextResearch]_vars

\* submit_research_answer called on its own, as tests/backend/
\* test_research.py calls it: a new session, an agent holding its GRANT, the
\* knowledge market OPEN or already RESOLVED, any answer text; the caller
\* commits
SubmitAnswers == {"42", " 42 ", "17", " 17 ", "19"}
MarketStates == {"OPEN", "RESOLVED"}

InitSubmit ==
    /\ mode \in Modes
    /\ \E amount \in GrantAmounts :
          /\ bots = [a \in Agents |->
                       [status |-> "ALIVE", balance |-> amount]]
          /\ ledger = {append_ledger_entry({}, a, amount, "GRANT",
                                           Ref(0, "GENESIS_GRANT", "")) :
                          a \in Agents}
    /\ \E st \in MarketStates :
          markets = [m \in MarketIds |->
                       [status |-> IF m = "m1" THEN st ELSE "OPEN",
                        source_type |-> SourceType(m),
                        bounty |-> IF m = "m1" THEN RESEARCH_BOUNTY ELSE 0,
                        outcome |-> IF m = "m1" /\ st = "RESOLVED"
                                    THEN CanonicalAnswer ELSE ""]]
    /\ predictions = {}
    /\ \E a \in Agents, text \in SubmitAnswers :
          tk = [d \in Drivers |->
                  IF d = "ticker"
                  THEN [NoTick EXCEPT
                           !.pc = "rs_submit", !.bot_id = a, !.tick_id = 1,
                           !.loaded = TRUE,
                           !.answer = [answer |-> text, confidence |-> 0,
                                       tool_fee_charged |-> FALSE,
                                       market |-> "m1"]]
                  ELSE NoTick]
    /\ queue = [d \in Drivers |-> <<>>]
    /\ nextTick = 1
    /\ faults = 0
    /\ wagers = 0
    /\ daemon = NoDaemon
    /\ maker = NoMaker
    /\ lookup = NoLookup

\* the caller's session.commit() after submit_research_answer has returned
SubmitCommit(d) ==
    LET t == tk[d]
    IN  /\ t.pc = "reread"
        /\ ledger' = ledger \cup Range(t.entries)
        /\ bots' = CommitBots(t)
        /\ markets' = CommitMarkets(t)
        /\ predictions' = predictions \cup t.preds
        /\ tk' = [tk EXCEPT ![d] =
              [Done(t, "", "", Len(t.entries)) EXCEPT !.result = t.result]]
        /\ UNCHANGED <<mode, queue, nextTick, faults, wagers,
                   daemon, maker, lookup>>

NextSubmit ==
    \/ \E d \in Ticker : TickSubmit(d)
    \/ \E d \in Ticker : TickPayout(d)
    \/ \E d \in Ticker : SubmitCommit(d)

SpecSubmit == InitSubmit /\ [][NextSubmit]_vars

\* ------------------------------------------------ scripts/run_ticker.py
\* run_daemon over a fleet of two agents, each created with 0.20 or 10.00
\* credits, and a language model that always answers WAIT; two knowledge
\* markets are open and the generator has one more article to offer
TICK_RATE == 10
RESEARCH_MIN_OPEN == 3
Fleet == {1, 2}
DaemonGrants == {2000, 100000}
ArticleIds == {"m3"}
MaxCycles == 2

InitDaemon ==
    /\ mode \in Modes
    /\ \E grant \in [Fleet -> DaemonGrants] :
          /\ bots = [a \in Fleet |->
                       [status |-> "ALIVE", balance |-> grant[a]]]
          /\ ledger = {append_ledger_entry({}, a, grant[a], "GRANT",
                                           Ref(0, "GENESIS_GRANT", "")) :
                          a \in Fleet}
    /\ markets = [m \in MarketIds |->
                    [status |-> "OPEN", source_type |-> "RESEARCH",
                     bounty |-> RESEARCH_BOUNTY, outcome |-> ""]]
    /\ predictions = {}
    /\ tk = [d \in Drivers |-> NoTick]
    /\ queue = [d \in Drivers |-> <<>>]
    /\ nextTick = 0
    /\ faults = 0
    /\ wagers = 0
    /\ daemon = [NoDaemon EXCEPT !.pc = "loop"]
    /\ maker = NoMaker
    /\ lookup = NoLookup

\* run_ticker.py 70-75: the handler of SIGINT and SIGTERM sets the flag;
\* frame is the place it interrupted
Signal ==
    /\ daemon.pc \notin {"off", "exit"}
    /\ ~daemon.shutdown
    /\ daemon' = [daemon EXCEPT !.shutdown = TRUE, !.frame = daemon.pc]
    /\ UNCHANGED <<mode, bots, ledger, markets, predictions, tk, queue,
                   nextTick, faults, wagers, maker, lookup>>

\* run_ticker.py 144-145: the test of the while loop
LoopStep(dm) ==
    IF dm.shutdown THEN [dm EXCEPT !.pc = "exit"]
    ELSE [dm EXCEPT !.pc = "markets", !.cycle = @ + 1]

DaemonLoop ==
    /\ daemon.pc = "loop"
    /\ daemon.shutdown \/ daemon.cycle < MaxCycles
    /\ daemon' = LoopStep(daemon)
    /\ UNCHANGED <<mode, bots, ledger, markets, predictions, tk, queue,
                   nextTick, faults, wagers, maker, lookup>>

\* run_ticker.py 147-154, market_maker.py 387-423: ensure_research_markets
\* adds knowledge markets until RESEARCH_MIN_OPEN are open or its attempts
\* are used up; every attempt may fail, and so may the session
DaemonMarkets ==
    LET open == {m \in DOMAIN markets :
                    /\ markets[m].status = "OPEN"
                    /\ markets[m].source_type = "RESEARCH"}
        wanted == Max(0, RESEARCH_MIN_OPEN - Cardinality(open))
        articles == ArticleIds \ DOMAIN markets
    IN  /\ daemon.pc = "markets"
        /\ \E new \in SUBSET articles :
              /\ Cardinality(new) <= wanted
              /\ markets' = [m \in DOMAIN markets \cup new |->
                    IF m \in new
                    THEN [status |-> "OPEN", source_type |-> "RESEARCH",
                          bounty |-> RESEARCH_BOUNTY, outcome |-> ""]
                    ELSE markets[m]]
        /\ daemon' = [daemon EXCEPT !.pc = "list"]
        /\ UNCHANGED <<mode, bots, ledger, predictions, tk, queue,
                       nextTick, faults, wagers, maker, lookup>>

\* run_ticker.py 83-90: tick_all_bots enumerates the ALIVE bots by id
DaemonList ==
    LET alive == {a \in DOMAIN bots : bots[a].status = "ALIVE"}
    IN  /\ daemon.pc = "list"
        /\ queue' = [queue EXCEPT !["ticker"] = Sorted(alive)]
        /\ daemon' = [daemon EXCEPT
                         !.pc = IF alive = {} THEN "sleep" ELSE "sweep",
                         !.slept = 0]
        /\ UNCHANGED <<mode, bots, ledger, markets, predictions, tk,
                       nextTick, faults, wagers, maker, lookup>>

\* run_ticker.py 93-96: the head of the loop over the enumerated bots
SweepStep(dm, bots_left) ==
    IF bots_left = <<>> \/ dm.shutdown
    THEN [dm EXCEPT !.pc = "sleep", !.slept = 0]
    ELSE [dm EXCEPT !.pc = "tick"]

\* run_ticker.py 93-110: the next bot's execute_tick is called, or the
\* sweep ends
DaemonSweep ==
    LET dm == SweepStep(daemon, queue["ticker"])
    IN  /\ daemon.pc = "sweep"
        /\ daemon' = dm
        /\ IF dm.pc = "tick"
           THEN /\ tk' = [tk EXCEPT !["ticker"] =
                     [NoTick EXCEPT !.pc = "load",
                                    !.bot_id = Head(queue["ticker"]),
                                    !.tick_id = nextTick + 1]]
                /\ queue' = [queue EXCEPT !["ticker"] = Tail(@)]
                /\ nextTick' = nextTick + 1
           ELSE /\ queue' = [queue EXCEPT !["ticker"] = <<>>]
                /\ UNCHANGED <<tk, nextTick>>
        /\ UNCHANGED <<mode, bots, ledger, markets, predictions, faults,
                       wagers, maker, lookup>>

\* run_ticker.py 105-123: execute_tick has returned or raised
DaemonTicked ==
    /\ daemon.pc = "tick"
    /\ tk["ticker"].pc = "done"
    /\ daemon' = [daemon EXCEPT !.pc = "sweep"]
    /\ UNCHANGED <<mode, bots, ledger, markets, predictions, tk, queue,
                   nextTick, faults, wagers, maker, lookup>>

\* a sleep loop that does not read the flag
SleepStepDeaf(dm) ==
    IF dm.slept = TICK_RATE THEN [dm EXCEPT !.pc = "loop"]
    ELSE [dm EXCEPT !.pc = "sleeping"]

\* run_ticker.py 176-178: the head of the sleep loop
SleepStep(dm) ==
    IF dm.slept = TICK_RATE \/ dm.shutdown THEN [dm EXCEPT !.pc = "loop"]
    ELSE [dm EXCEPT !.pc = "sleeping"]

DaemonSleep ==
    /\ daemon.pc = "sleep"
    /\ daemon' = SleepStep(daemon)
    /\ UNCHANGED <<mode, bots, ledger, markets, predictions, tk, queue,
                   nextTick, faults, wagers, maker, lookup>>

\* run_ticker.py 179: asyncio.sleep(1.0) is over
DaemonWake ==
    /\ daemon.pc = "sleeping"
    /\ daemon' = [daemon EXCEPT !.pc = "sleep", !.slept = @ + 1]
    /\ UNCHANGED <<mode, bots, ledger, markets, predictions, tk, queue,
                   nextTick, faults, wagers, maker, lookup>>

\* the steps of the daemon's own thread
DaemonRun ==
    \/ DaemonLoop
    \/ DaemonMarkets
    \/ DaemonList
    \/ DaemonSweep
    \/ DaemonTicked
    \/ DaemonSleep
    \/ DaemonWake
    \/ \E d \in Ticker : TickLoad(d)
    \/ \E d \in Ticker : TickBalance(d)
    \/ \E d \in Ticker : TickStreak(d, IdleHints)
    \/ \E d \in Ticker : TickLiqAppend(d)
    \/ \E d \in Ticker : TickHeartbeat(d)
    \/ \E d \in Ticker : TickCommit(d)

NextDaemon ==
    \/ Signal
    \/ DaemonLoop
    \/ DaemonMarkets
    \/ DaemonList
    \/ DaemonSweep
    \/ DaemonTicked
    \/ DaemonSleep
    \/ DaemonWake
    \/ \E d \in Ticker : TickLoad(d)
    \/ \E d \in Ticker : TickBalance(d)
    \/ \E d \in Ticker : TickStreak(d, IdleHints)
    \/ \E d \in Ticker : TickLiqAppend(d)
    \/ \E d \in Ticker : TickHeartbeat(d)
    \/ \E d \in Ticker : TickCommit(d)

SpecDaemon == InitDaemon /\ [][NextDaemon]_vars

\* the event loop runs the daemon's thread whenever it can take a step; the
\* signal is under no obligation to arrive
SpecDaemonFair == SpecDaemon /\ WF_vars(DaemonRun)

\* ------------------------------------------- services/market_maker.py
\* ensure_open_markets called once with any min_open, on a board that holds
\* up to two markets already, while the API's create_market is in use; here
\* the markets table is the sequence of its rows and a description is its
\* subject (article, city, repository, keyword) and the reading quoted in it
Sources == {"RESEARCH", "WEATHER", "GITHUB", "NEWS"}
MaxMinOpen == 2
MaxMarkets == 2

Subject(source) ==
    IF source = "RESEARCH" THEN {"Ada Lovelace"}
    ELSE IF source = "WEATHER" THEN {"London"}
    ELSE IF source = "GITHUB" THEN {"langchain-ai/langchain"}
    ELSE {"AI"}

Reading(source) ==
    IF source = "RESEARCH" THEN {""}
    ELSE IF source = "WEATHER" THEN {"above 10"}
    ELSE IF source = "GITHUB" THEN {"500 stars", "1000 stars"}
    ELSE {"0 matching"}

\* what a generator's provider returns: nothing, or a candidate
NoCandidate == [subject |-> "", reading |-> ""]
Candidates(source) ==
    [subject : Subject(source), reading : Reading(source)]

NewMarket(source, description) ==
    [status |-> "OPEN", source_type |-> source,
     bounty |-> IF source = "RESEARCH" THEN RESEARCH_BOUNTY ELSE 0,
     outcome |-> "", description |-> description]

\* market_maker.py 93-101, 152-160, 219-229, 287-297: the generator's test
\* for a market that is already there: the same description for RESEARCH and
\* WEATHER, the same repository or keyword for GITHUB and NEWS
Duplicate(source, description, rows) ==
    \E r \in rows :
        /\ r.status = "OPEN"
        /\ IF source \in {"RESEARCH", "WEATHER"}
           THEN r.description = description
           ELSE /\ r.source_type = source
                /\ r.description.subject = description.subject

\* one generator call on the rows its session sees: the markets to add
Generated(source, candidate, rows) ==
    IF candidate = NoCandidate \/ Duplicate(source, candidate, rows)
    THEN <<>>
    ELSE <<NewMarket(source, candidate)>>

InitMaker ==
    /\ mode = "observe"
    /\ bots = [a \in Agents |-> [status |-> "NONE", balance |-> 0]]
    /\ ledger = {}
    /\ \E board \in {<<>>, <<"OPEN">>, <<"RESOLVED">>, <<"OPEN", "OPEN">>} :
          markets = [i \in DOMAIN board |->
                       [NewMarket(IF i = 1 THEN "RESEARCH" ELSE "WEATHER",
                                  IF i = 1
                                  THEN [subject |-> "Ada Lovelace",
                                        reading |-> ""]
                                  ELSE [subject |-> "London",
                                        reading |-> "above 10"])
                          EXCEPT !.status = board[i]]]
    /\ predictions = {}
    /\ tk = [d \in Drivers |-> NoTick]
    /\ queue = [d \in Drivers |-> <<>>]
    /\ nextTick = 0
    /\ faults = 0
    /\ wagers = 0
    /\ daemon = NoDaemon
    /\ \E min_open \in 0..MaxMinOpen :
          maker = [NoMaker EXCEPT !.pc = "count", !.min_open = min_open]
    /\ lookup = NoLookup

\* market_maker.py 358-369: the count of OPEN markets and the attempt budget
MakerCount ==
    /\ maker.pc = "count"
    /\ maker' = [maker EXCEPT
          !.current_count =
              Cardinality({i \in DOMAIN markets :
                              markets[i].status = "OPEN"}),
          !.created = 0, !.attempts = 0,
          !.max_attempts = maker.min_open * 3,
          !.pc = "loop"]
    /\ UNCHANGED <<mode, bots, ledger, markets, predictions, tk, queue,
                   nextTick, faults, wagers, daemon, lookup>>

\* a loop that goes on until the board is stocked
MoreWantedUnbounded(mk) ==
    mk.current_count + mk.created < mk.min_open

\* market_maker.py 371: the test of the while loop
MoreWanted(mk) ==
    /\ mk.current_count + mk.created < mk.min_open
    /\ mk.attempts < mk.max_attempts

\* market_maker.py 371-376: one turn of the loop, a generator drawn by
\* weight; its provider answers with a candidate or fails
MakerAttempt ==
    /\ maker.pc = "loop"
    /\ MoreWanted(maker)
    /\ \E source \in Sources :
       \E candidate \in Candidates(source) \cup {NoCandidate} :
          LET rows == Range(markets) \cup Range(maker.added)
              market == Generated(source, candidate, rows)
          IN  maker' = [maker EXCEPT
                  !.attempts = @ + 1,
                  !.added = @ \o market,
                  !.created = @ + Len(market)]
    /\ UNCHANGED <<mode, bots, ledger, markets, predictions, tk, queue,
                   nextTick, faults, wagers, daemon, lookup>>

\* market_maker.py 378-385: the commit, if anything was created, and return
MakerReturn ==
    /\ maker.pc = "loop"
    /\ ~MoreWanted(maker)
    /\ markets' = IF maker.created > 0 THEN markets \o maker.added
                  ELSE markets
    /\ maker' = [maker EXCEPT !.pc = "done"]
    /\ UNCHANGED <<mode, bots, ledger, predictions, tk, queue,
                   nextTick, faults, wagers, daemon, lookup>>

\* routers/markets.py 74-113: create_market validates the criteria, parses
\* the deadline and inserts the market
CreateMarket(source, description) ==
    /\ Len(markets) < MaxMarkets
    /\ markets' = Append(markets, NewMarket(source, description))
    /\ UNCHANGED <<mode, bots, ledger, predictions, tk, queue,
                   nextTick, faults, wagers, daemon, maker, lookup>>

\* the steps of the market maker's own coroutine
MakerRun ==
    \/ MakerCount
    \/ MakerAttempt
    \/ MakerReturn

NextMaker ==
    \/ MakerCount
    \/ MakerAttempt
    \/ MakerReturn
    \/ \E source \in Sources :
          \E description \in Candidates(source) :
             CreateMarket(source, description)

SpecMaker == InitMaker /\ [][NextMaker]_vars

\* the event loop runs the market maker whenever it can take a step
SpecMakerFair == SpecMaker /\ WF_vars(MakerRun)

\* ---------------------------------------------------------------------
\* feed_ingestor.py 142-208: AsyncFeedIngestor.wikipedia_lookup, the
\* knowledge lookup with its retry loop
\* ---------------------------------------------------------------------

\* the largest max_retries a call is made with
MaxRetries == 3

\* base_backoff of a call, in seconds
Backoffs == {1, 2}

\* what one GET of the REST summary endpoint comes to: a summary with a
\* pageid, a summary without one, a status 404, 403, 429 or 500, a
\* TimeoutException, or another exception of the transport
Responses == {"200", "200-no-pageid", "404", "403", "429", "500",
              "timeout", "error"}

\* what the MediaWiki action API fallback returns (256-293)
FallbackResults == {"article", "nil"}

\* feed_ingestor.py 170, 193: wait = base_backoff * (2 ** attempt)
Backoff(base_backoff, attempt) == base_backoff * (2 ^ attempt)

MoreAttemptsInclusive(lk) == lk.attempt <= lk.max_retries

\* feed_ingestor.py 154: for attempt in range(max_retries)
MoreAttempts(lk) == lk.attempt < lk.max_retries

\* feed_ingestor.py 154, 204-208: the head of the loop; the call returns
\* None when the attempts are used up
LoopHead(lk) ==
    IF MoreAttempts(lk)
    THEN [lk EXCEPT !.pc = "request"]
    ELSE [lk EXCEPT !.pc = "done", !.result = "nil"]

\* feed_ingestor.py 156-202: what the body of the loop does with a response
AfterResponse(lk, response) ==
    IF response = "404"
    THEN [lk EXCEPT !.pc = "done", !.result = "nil"]
    ELSE IF response = "403"
    THEN [lk EXCEPT !.pc = "fallback"]
    ELSE IF response = "429"
    THEN [lk EXCEPT !.pc = "sleep"]
    ELSE IF response = "500"
    THEN [lk EXCEPT !.pc = "done", !.result = "nil"]
    ELSE IF response = "200-no-pageid"
    THEN [lk EXCEPT !.pc = "done", !.result = "nil"]
    ELSE IF response = "200"
    THEN [lk EXCEPT !.pc = "done", !.result = "article"]
    ELSE IF response = "timeout"
    THEN [lk EXCEPT !.pc = "sleep"]
    ELSE [lk EXCEPT !.pc = "done", !.result = "nil"]

InitLookup ==
    /\ mode = "observe"
    /\ bots = [a \in Agents |-> [status |-> "NONE", balance |-> 0]]
    /\ ledger = {}
    /\ markets = <<>>
    /\ predictions = {}
    /\ tk = [d \in Drivers |-> NoTick]
    /\ queue = [d \in Drivers |-> <<>>]
    /\ nextTick = 0
    /\ faults = 0
    /\ wagers = 0
    /\ daemon = NoDaemon
    /\ maker = NoMaker
    /\ \E max_retries \in 0..MaxRetries, base_backoff \in Backoffs :
          lookup = [NoLookup EXCEPT !.pc = "call",
                                    !.max_retries = max_retries,
                                    !.base_backoff = base_backoff]

\* feed_ingestor.py 145-154: the call builds the url and the headers and
\* enters the loop
LookupCall ==
    /\ lookup.pc = "call"
    /\ lookup' = LoopHead(lookup)
    /\ UNCHANGED <<mode, bots, ledger, markets, predictions, tk, queue,
                   nextTick, faults, wagers, daemon, maker>>

\* feed_ingestor.py 155-202: one GET of the primary endpoint and what the
\* body of the loop makes of its response
LookupRequest(response) ==
    /\ lookup.pc = "request"
    /\ lookup' = AfterResponse(
                    [lookup EXCEPT !.requests = @ + 1,
                                   !.responses = Append(@, response)],
                    response)
    /\ UNCHANGED <<mode, bots, ledger, markets, predictions, tk, queue,
                   nextTick, faults, wagers, daemon, maker>>

\* feed_ingestor.py 163-165, 256-293: return await _mediawiki_lookup(title)
LookupFallback(found) ==
    /\ lookup.pc = "fallback"
    /\ lookup' = [lookup EXCEPT !.pc = "done", !.fallbacks = @ + 1,
                                !.result = found]
    /\ UNCHANGED <<mode, bots, ledger, markets, predictions, tk, queue,
                   nextTick, faults, wagers, daemon, maker>>

\* feed_ingestor.py 169-175, 192-198: await asyncio.sleep(wait); continue
LookupWake ==
    /\ lookup.pc = "sleep"
    /\ lookup' = LoopHead(
                    [lookup EXCEPT
                        !.waits = Append(@, Backoff(lookup.base_backoff,
                                                    lookup.attempt)),
                        !.attempt = @ + 1])
    /\ UNCHANGED <<mode, bots, ledger, markets, predictions, tk, queue,
                   nextTick, faults, wagers, daemon, maker>>

NextLookup ==
    \/ LookupCall
    \/ \E response \in Responses : LookupRequest(response)
    \/ \E found \in FallbackResults : LookupFallback(found)
    \/ LookupWake

SpecLookup == InitLookup /\ [][NextLookup]_vars

\* every await of the call completes: a GET ends by REQUEST_TIMEOUT (24, 155)
\* and a sleep by its duration
SpecLookupFair == SpecLookup /\ WF_vars(NextLookup)

\* bot_runner.py 190-191 on its own: a tick that has read an idle streak of
\* any length computes its fee
InitFee ==
    /\ InitStore
    /\ \E n \in 0..MaxStreak :
          tk = [d \in Drivers |->
                  IF d = "ticker"
                  THEN [NoTick EXCEPT !.pc = "fee", !.idle_streak = n]
                  ELSE NoTick]

TickFee(d) ==
    /\ tk[d].pc = "fee"
    /\ tk' = [tk EXCEPT ![d] =
          [@ EXCEPT !.pc = "fee_done",
                    !.tick_entropy_fee = calculate_entropy_fee(tk[d].idle_streak)]]
    /\ UNCHANGED <<mode, bots, ledger, markets, predictions, queue,
                   nextTick, faults, wagers,
                   daemon, maker, lookup>>

NextFee == \E d \in Ticker : TickFee(d)

SpecFee == InitFee /\ [][NextFee]_vars

\* ---------------------------------------------------------------------
\* ledger_service.py 30-82 with models.Ledger 134-144: the payload of the
\* hash as text, and the row as the database keeps it
\* ---------------------------------------------------------------------

\* entries appended to one chain
MaxEntries == 3

\* a decimal literal: sign, integer part, and the digits after the point
\* as they are written (Decimal('1.00') has two, the float -0.5 one)
Dec(neg, int, frac) == [neg |-> neg, int |-> int, frac |-> frac]

\* amounts as the callers pass them: float(-tick_entropy_fee) = -0.5
\* (bot_runner.py 542), Decimal(str(-stake)) = -1.00 (market_service.py
\* 174), Decimal('1000.00') (drive_economy.py 82), float(-total_cost) of a
\* wager with eight decimals (bot_runner.py 494)
DigestAmounts ==
    {Dec(TRUE, 0, <<5>>), Dec(TRUE, 1, <<0, 0>>),
     Dec(FALSE, 1000, <<0, 0>>),
     Dec(TRUE, 0, <<1, 2, 3, 4, 5, 6, 7, 8>>)}

DigestKinds == {"HEARTBEAT", "MARKET_STAKE"}

DigitChars == <<"0", "1", "2", "3", "4", "5", "6", "7", "8", "9">>

RECURSIVE Digits(_)
Digits(n) ==
    IF n < 10 THEN <<DigitChars[n + 1]>>
    ELSE Append(Digits(n \div 10), DigitChars[(n % 10) + 1])

\* f"{amount}": str() of a float or a Decimal keeps the digits the value
\* carries
FormatAmount(amount) ==
    (IF amount.neg THEN <<"-">> ELSE <<>>)
    \o Digits(amount.int)
    \o (IF amount.frac = <<>> THEN <<>>
        ELSE <<".">> \o [i \in DOMAIN amount.frac |->
                            DigitChars[amount.frac[i] + 1]])

\* models.py 136: Numeric(18, 8) keeps eight digits after the point and
\* hands back a Decimal of that scale
Numeric_18_8(amount) ==
    [amount EXCEPT !.frac = [i \in 1..8 |-> IF i <= Len(amount.frac)
                                            THEN amount.frac[i] ELSE 0]]

\* datetime.now(timezone.utc): an instant with its offset from UTC
UtcNow(clock) == [instant |-> clock, utcoffset |-> 0]

\* timestamp.isoformat(): the wall-clock time and the offset
isoformat(timestamp) ==
    <<timestamp.instant + timestamp.utcoffset,
      IF timestamp.utcoffset = 0 THEN "+00:00" ELSE "other">>

\* models.py 142-144: DateTime(timezone=True) keeps the instant and hands
\* it back in UTC
DateTimeTz(timestamp) == [instant |-> timestamp.instant, utcoffset |-> 0]

\* ledger_service.py 62-71: the pipe-separated payload
Payload(bot_id, amount, kind, reference_id, timestamp, previous_hash, seq) ==
    <<bot_id, "|", amount, "|", kind, "|", reference_id,
      "|", isoformat(timestamp), "|", previous_hash, "|", seq>>

\* ledger_service.py 49-87, the row as written to the table
append_and_store(rows, bot_id, amount, transaction_type, reference_id, clock) ==
    LET has == ChainOf(rows, bot_id) # {}
        previous_hash == IF has THEN TipOf(rows, bot_id).hash ELSE ZeroHash
        next_sequence == IF has THEN TipOf(rows, bot_id).sequence + 1 ELSE 1
        timestamp == UtcNow(clock)
        payload == Payload(bot_id, FormatAmount(amount), transaction_type,
                           reference_id, timestamp, previous_hash,
                           next_sequence)
    IN  [bot_id |-> bot_id, amount |-> Numeric_18_8(amount),
         transaction_type |-> transaction_type,
         reference_id |-> reference_id,
         previous_hash |-> previous_hash,
         hash |-> Sha256(payload),
         sequence |-> next_sequence,
         timestamp |-> DateTimeTz(timestamp)]

\* the hash over the fields of a row read back from the table
Recomputed(entry) ==
    Sha256(Payload(entry.bot_id, FormatAmount(entry.amount),
                   entry.transaction_type, entry.reference_id,
                   entry.timestamp, entry.previous_hash, entry.sequence))

InitDigest ==
    /\ mode = "enforce"
    /\ bots = [a \in Agents |-> [status |-> "ALIVE", balance |-> 0]]
    /\ ledger = {}
    /\ markets = <<>>
    /\ predictions = {}
    /\ tk = [d \in Drivers |-> NoTick]
    /\ queue = [d \in Drivers |-> <<>>]
    /\ nextTick = 0
    /\ faults = 0
    /\ wagers = 0
    /\ daemon = NoDaemon
    /\ maker = NoMaker
    /\ lookup = NoLookup

\* one append_ledger_entry and the commit of its session
DigestAppend(a, amount, transaction_type) ==
    /\ Cardinality(ledger) < MaxEntries
    /\ nextTick' = nextTick + 1
    /\ ledger' = ledger \cup
          {append_and_store(ledger, a, amount, transaction_type,
                            Ref(nextTick', "TICK", ""), nextTick')}
    /\ UNCHANGED <<mode, bots, markets, predictions, tk, queue, faults,
                   wagers, daemon, maker, lookup>>

NextDigest ==
    \E a \in Agents, amount \in DigestAmounts,
       transaction_type \in DigestKinds :
          DigestAppend(a, amount, transaction_type)

SpecDigest == InitDigest /\ [][NextDigest]_vars

\* ---------------------------------------------------------------------
\* scripts/revive_bot.py 32-74: the operator revives a DEAD bot
\* ---------------------------------------------------------------------

\* ticks of the ticker around a revival
MaxReviveTicks == 4

\* grants that do not cover, and that cover once, the base fee
ReviveGrants == {2000, 5000}
\* <credit_amount> of the command line
ReviveAmounts == {2000, 100000}

\* database.py 80-83: Ledger.calculate_hash, over the previous hash, the
\* bot, the amount, the type, the reference and a timestamp, unseparated
calculate_hash(prev_hash, bot_id, amount, t_type, ref_id, ts) ==
    Sha256(<<prev_hash, bot_id, amount, t_type, ref_id, ts>>)

\* revive_bot.py 52-63: the REVIVE row, built on the latest row of the bot
\* (the rows of one ticker are inserted in sequence order)
revive_entry(rows, bot_id, amount, ts) ==
    LET has == ChainOf(rows, bot_id) # {}
        prev_hash == IF has THEN TipOf(rows, bot_id).hash ELSE ZeroHash
    IN  [bot_id |-> bot_id, amount |-> amount,
         transaction_type |-> "REVIVE",
         reference_id |-> Ref(0, "REVIVE", ""),
         previous_hash |-> prev_hash,
         hash |-> calculate_hash(prev_hash, bot_id, amount, "REVIVE",
                                 Ref(0, "REVIVE", ""), ts),
         sequence |-> NullSequence]

\* revive_bot.py 32-71
Revive(a, amount) ==
    /\ bots[a].status = "DEAD"
    /\ bots' = [bots EXCEPT ![a] = [status |-> "ALIVE",
                                    balance |-> @.balance + amount]]
    /\ ledger' = ledger \cup {revive_entry(ledger, a, amount, nextTick)}
    /\ UNCHANGED <<mode, markets, predictions, tk, queue, nextTick,
                   faults, wagers, daemon, maker, lookup>>

NextRevive ==
    \/ \E a \in Agents, amount \in ReviveGrants : Genesis(a, amount)
    \/ \E d \in Ticker : CycleStart(d, MaxReviveTicks)
    \/ \E d \in Ticker : StartTick(d, MaxReviveTicks)
    \/ \E d \in Ticker : TickLoad(d)
    \/ \E d \in Ticker : TickBalance(d)
    \/ \E d \in Ticker : TickStreak(d, IdleHints)
    \/ \E d \in Ticker : TickLiqAppend(d)
    \/ \E d \in Ticker : TickHeartbeat(d)
    \/ \E d \in Ticker : TickCommit(d)
    \/ \E d \in Ticker : TickErrLoad(d)
    \/ \E d \in Ticker : TickErrAppend(d)
    \/ \E a \in Agents, amount \in ReviveAmounts : Revive(a, amount)

SpecRevive == Init /\ [][NextRevive]_vars

\* ---------------------------------------------------------------------
\* a lone ticker on agents funded at the research gate
\* (bot_runner.py 292: current_balance >= tick_entropy_fee + RESEARCH_STAKE)
\* ---------------------------------------------------------------------
\* grants of 1.50 (the gate with the base fee) and 2.00
SolvencyGrants == {15000, 20000}

NextSolvency ==
    \/ \E a \in Agents, amount \in SolvencyGrants : Genesis(a, amount)
    \/ \E d \in Ticker : CycleStart(d, MaxTicks)
    \/ \E d \in Ticker : StartTick(d, MaxTicks)
    \/ \E d \in Ticker : TickLoad(d)
    \/ \E d \in Ticker : TickBalance(d)
    \/ \E d \in Ticker : TickStreak(d, StrategyActions)
    \/ \E d \in Ticker : TickLiqAppend(d)
    \/ \E d \in Ticker : TickResearch(d)
    \/ \E d \in Ticker : TickSubmit(d)
    \/ \E d \in Ticker : TickPayout(d)
    \/ \E d \in Ticker : TickToolFee(d)
    \/ \E d \in Ticker : TickReread(d)
    \/ \E d \in Ticker : TickPortfolio(d, MAX_MARKETS_PER_TICK, Confidences)
    \/ \E d \in Ticker : TickBet(d)
    \/ \E d \in Ticker : TickWager(d)
    \/ \E d \in Ticker : TickWagerAppend(d)
    \/ \E d \in Ticker : TickHbReread(d)
    \/ \E d \in Ticker : TickHeartbeat(d)
    \/ \E d \in Ticker : TickCommit(d)

SpecSolvency == Init /\ [][NextSolvency]_vars

\* ---------------------------------------------------------------------
\* run_ticker.py and drive_economy.py ticking a fleet of two agents on
\* one knowledge market
\* ---------------------------------------------------------------------
BountyGrants == {100000}

InitBounty ==
    /\ mode \in Modes
    /\ bots = [a \in Fleet |-> [status |-> "NONE", balance |-> 0]]
    /\ ledger = {}
    /\ markets = [m \in MarketIds |->
                    [status |-> "OPEN",
                     source_type |-> SourceType(m),
                     bounty |-> IF m = "m1" THEN RESEARCH_BOUNTY ELSE 0,
                     outcome |-> ""]]
    /\ predictions = {}
    /\ tk = [d \in Drivers |-> NoTick]
    /\ queue = [d \in Drivers |-> <<>>]
    /\ nextTick = 0
    /\ faults = 0
    /\ wagers = 0
    /\ daemon = NoDaemon
    /\ maker = NoMaker
    /\ lookup = NoLookup

\* SELECT bots WHERE status = 'ALIVE' ORDER BY id, over the fleet
FleetCycleStart(d, max_ticks) ==
    /\ ~Active(tk[d])
    /\ queue[d] = <<>>
    /\ nextTick < max_ticks
    /\ {a \in Fleet : bots[a].status = "ALIVE"} # {}
    /\ queue' = [queue EXCEPT ![d] =
                    Sorted({a \in Fleet : bots[a].status = "ALIVE"})]
    /\ UNCHANGED <<mode, bots, ledger, markets, predictions, tk, nextTick,
                   faults, wagers, daemon, maker, lookup>>

NextBounty ==
    \/ \E a \in Fleet, amount \in BountyGrants : Genesis(a, amount)
    \/ \E d \in Drivers : FleetCycleStart(d, MaxTicks)
    \/ \E d \in Drivers : StartTick(d, MaxTicks)
    \/ \E d \in Drivers : TickLoad(d)
    \/ \E d \in Drivers : TickBalance(d)
    \/ \E d \in Drivers : TickStreak(d, ResearchHints)
    \/ \E d \in Drivers : TickResearch(d)
    \/ \E d \in Drivers : TickSubmit(d)
    \/ \E d \in Drivers : TickPayout(d)
    \/ \E d \in Drivers : TickToolFee(d)
    \/ \E d \in Drivers : TickReread(d)
    \/ \E d \in Drivers : TickPortfolio(d, NoBets, Confidences)
    \/ \E d \in Drivers : TickWager(d)
    \/ \E d \in Drivers : TickWagerAppend(d)
    \/ \E d \in Drivers : TickHbReread(d)
    \/ \E d \in Drivers : TickHeartbeat(d)
    \/ \E d \in Drivers : TickCommit(d)

SpecBounty == InitBounty /\ [][NextBounty]_vars

\* ---------------------------------------------------------------------
\* run_ticker.py alone on an agent whose language model always answers
\* WAIT, until the entropy fee has used up a grant of 1.00 or of 10.00
\* ---------------------------------------------------------------------
MaxDecayTicks == 15
DecayGrants == {10000, 100000}

\* one step of the ticker's loop: list the ALIVE bots, then execute_tick
\* for each of them, awaited to its end
TickerStep ==
    \E d \in Ticker :
        \/ CycleStart(d, MaxDecayTicks)
        \/ StartTick(d, MaxDecayTicks)
        \/ TickLoad(d)
        \/ TickBalance(d)
        \/ TickStreak(d, IdleHints)
        \/ TickLiqAppend(d)
        \/ TickHeartbeat(d)
        \/ TickCommit(d)

NextDecay ==
    \/ \E a \in Agents, amount \in DecayGrants : Genesis(a, amount)
    \/ TickerStep

SpecDecay == Init /\ [][NextDecay]_vars

\* the ticker's loop never stops: while True ... await asyncio.sleep
SpecDecayFair == SpecDecay /\ WF_vars(TickerStep)

\* ---------------------------------------------------------------------
\* run_ticker.py and drive_economy.py ticking a fleet of two agents whose
\* language model answers PORTFOLIO and bets on at most one market
\* ---------------------------------------------------------------------
FleetTicks == 2
FleetGrants == {2000, 100000}

NextFleet ==
    \/ \E a \in Fleet, amount \in FleetGrants : Genesis(a, amount)
    \/ \E d \in Drivers : FleetCycleStart(d, FleetTicks)
    \/ \E d \in Drivers : StartTick(d, FleetTicks)
    \/ \E d \in Drivers : TickLoad(d)
    \/ \E d \in Drivers : TickBalance(d)
    \/ \E d \in Drivers : TickStreak(d, RaceHints)
    \/ \E d \in Drivers : TickLiqAppend(d)
    \/ \E d \in Drivers : TickPortfolio(d, RaceBets, Confidences)
    \/ \E d \in Drivers : TickBet(d)
    \/ \E d \in Drivers : TickHeartbeat(d)
    \/ \E d \in Drivers : TickCommit(d)

SpecFleet == InitBounty /\ [][NextFleet]_vars

\* ================================================================ claims
\* the committed entries a tick has written
TickEntries(t) ==
    {e \in ledger : e.bot_id = t.bot_id /\ e.reference_id.tick = t.tick_id}

CacheSynced(a) == bots[a].balance = get_balance(ledger, a)

HasReturned(d) == tk[d].pc = "done"

\* C1: in enforce mode every tick that loaded an ALIVE agent has, once it
\* has returned, at least one committed ledger entry of its own, whatever
\* the exit path
C1_EveryTickWrites ==
    mode = "enforce" =>
        \A d \in Drivers :
            (HasReturned(d) /\ tk[d].loaded) => TickEntries(tk[d]) # {}

\* C2: once a tick has returned, the cached balance of its agent equals the
\* sum of the agent's committed ledger amounts
C2_CacheEqualsChainSum ==
    \A d \in Drivers : HasReturned(d) => CacheSynced(tk[d].bot_id)

\* C3: each agent's committed entries carry the sequences 1..n exactly once,
\* the first links to the zero hash and every later one to the hash of its
\* predecessor
C3_ChainIntact ==
    \A a \in Agents :
        LET c == ChainOf(ledger, a)
        IN  /\ {e.sequence : e \in c} = 1..Cardinality(c)
            /\ \A e \in c :
                  IF e.sequence = 1 THEN e.previous_hash = ZeroHash
                  ELSE \E p \in c : /\ p.sequence = e.sequence - 1
                                    /\ e.previous_hash = p.hash

\* both drivers have committed entries into one chain
C3_Witness ==
    \E a \in Agents :
        /\ \A d \in Drivers :
              HasReturned(d) /\ tk[d].bot_id = a /\ tk[d].wrote > 0
        /\ Cardinality(ChainOf(ledger, a)) >= 3

\* C4: the committed chain never holds two entries with one agent and
\* sequence, and a transaction holding an entry whose (agent, sequence) is
\* already committed never gets any of its entries committed
C4_NoForks ==
    [][/\ \A e1, e2 \in ledger' :
             (e1.bot_id = e2.bot_id /\ e1.sequence = e2.sequence) => e1 = e2
       /\ \A d \in Drivers :
             Keys(Range(tk[d].entries)) \cap Keys(ledger) # {} =>
                Range(tk[d].entries) \cap ledger' = {}]_vars

\* two ticks appended after the same tip: one committed, the other failed
\* on the constraint and left nothing
C4_Witness ==
    \E d \in Drivers :
        /\ HasReturned(d) /\ tk[d].reason = "IntegrityError"
        /\ TickEntries(tk[d]) = {}
        /\ HasReturned(Other(d)) /\ tk[Other(d)].bot_id = tk[d].bot_id
        /\ tk[Other(d)].wrote > 0

\* a tick between loading its agent and returning, its balance read
InFlight(t) == Active(t) /\ t.loaded /\ t.pc # "balance"

\* C5: no two ticks for one agent are in flight together: while one is
\* between loading the agent and returning, no other has read the agent's
\* balance or written to its chain
C5_NoOverlap ==
    \A d \in Drivers :
        ~(/\ InFlight(tk[d]) /\ InFlight(tk[Other(d)])
          /\ tk[d].bot_id = tk[Other(d)].bot_id)

\* C6: the enforce-mode tick that lost a sequence collision has committed a
\* HEARTBEAT whose reference names its tick id and the conflict
C6_LoserWritesError ==
    mode = "enforce" =>
        \A d \in Drivers :
            (HasReturned(d) /\ tk[d].reason = "IntegrityError") =>
               \E e \in TickEntries(tk[d]) :
                  /\ e.transaction_type = "HEARTBEAT"
                  /\ e.reference_id.tag = "ERROR"

\* C7: once a tick and a wager for one agent have both committed, the
\* cached balance equals the ledger sum
C7_TickAndWagerSync ==
    \A d \in Drivers :
        (HasReturned(d) /\ tk[d].wrote > 0 /\ wagers > 0) =>
           CacheSynced(tk[d].bot_id)

\* C8: an enforce-mode tick that commits liquidates exactly when the chain
\* sum is below its fee, and the liquidation leaves status DEAD, cache 0,
\* one LIQUIDATION entry and a chain sum of 0
C8_Liquidation ==
    [][mode = "enforce" =>
         \A d \in Drivers :
            (tk[d].pc \in {"liq_commit", "wager_commit", "commit"}
               /\ tk'[d].pc = "done" /\ tk'[d].wrote > 0) =>
               LET a == tk[d].bot_id
                   liquidated == tk'[d].ret = "LIQUIDATION"
               IN  /\ liquidated <=>
                         get_balance(ledger, a) < tk[d].tick_entropy_fee
                   /\ liquidated =>
                         /\ bots'[a].status = "DEAD"
                         /\ bots'[a].balance = 0
                         /\ get_balance(ledger', a) = 0
                         /\ Cardinality({e \in ledger' \ ledger :
                               e.transaction_type = "LIQUIDATION"}) = 1]_vars

\* C9: once an agent is DEAD its chain and its status never change again
C9_DeadIsFinal ==
    [][\A a \in Agents :
          bots[a].status = "DEAD" =>
             /\ ChainOf(ledger', a) = ChainOf(ledger, a)
             /\ bots'[a].status = "DEAD"]_vars

C12_ObserveReconciles ==
    [][mode = "observe" =>
         \A d \in Drivers :
            (/\ Active(tk[d]) /\ tk[d].loaded /\ tk'[d].pc = "done"
             /\ tk'[d].reason = ""
             /\ ~CacheSynced(tk[d].bot_id)) =>
               bots'[tk[d].bot_id].balance =
                  get_balance(ledger', tk[d].bot_id)]_vars

\* the WAGER amounts of a tick with this balance and fee: -(fee + wager)
WagerCosts(t) ==
    {-(t.tick_entropy_fee +
         Max(Min(r, ((t.current_balance - t.tick_entropy_fee)
                        * WAGER_CAP_RATIO) \div 100), MIN_STAKE)) :
        r \in RawWagers}

TipHeartbeats(rows, bot_id) ==
    LET c == ChainOf(rows, bot_id)
        breaks == {e.sequence : e \in {x \in c :
                                        x.transaction_type # "HEARTBEAT"}}
        lastBreak == IF breaks = {} THEN 0
                     ELSE CHOOSE s \in breaks : \A r \in breaks : r <= s
    IN  Cardinality({e \in c : e.sequence > lastBreak})

\* the chain is a GRANT followed by HEARTBEAT entries only
FreshAndIdle(rows, bot_id) ==
    \A e \in ChainOf(rows, bot_id) :
        e.transaction_type = IF e.sequence = 1 THEN "GRANT" ELSE "HEARTBEAT"

\* the commit of a tick that wrote a HEARTBEAT and nothing else
IdleCommit(d) ==
    /\ tk[d].pc = "commit" /\ tk'[d].pc = "done" /\ tk'[d].reason = ""
    /\ Len(tk[d].entries) = 1
    /\ tk[d].entries[1].transaction_type = "HEARTBEAT"

\* what an idle commit over a tip of k HEARTBEAT entries does: a HEARTBEAT
\* of -fee(k), one more HEARTBEAT at the tip, and for a fresh agent BASE on
\* ticks 1 to 5 and BASE + PENALTY on the 6th
IdleCharge(d, k) ==
    LET a == tk[d].bot_id
        hb == tk[d].entries[1]
    IN  /\ hb.amount = -calculate_entropy_fee(k)
        /\ TipHeartbeats(ledger', a) = k + 1
        /\ FreshAndIdle(ledger, a) =>
              /\ k < 5 => hb.amount = -ENTROPY_BASE
              /\ k = 5 => hb.amount = -(ENTROPY_BASE + ENTROPY_IDLE_PENALTY)

C16_ErrorChargesOnce ==
    mode = "enforce" =>
        \A d \in Drivers :
            (HasReturned(d) /\ tk[d].loaded /\ tk[d].reason # "") =>
               \E e \in TickEntries(tk[d]) :
                  /\ TickEntries(tk[d]) = {e}
                  /\ \/ /\ e.transaction_type = "HEARTBEAT"
                        /\ e.amount < 0
                        /\ e.reference_id.tag = "ERROR"
                     \/ e.transaction_type = "LIQUIDATION"

\* every committed MarketPrediction has its committed MARKET_STAKE entry of
\* -stake for the same agent, tick and market, and the reverse
StakePaired ==
    LET stakes == {e \in ledger : e.transaction_type = "MARKET_STAKE"}
        Pair(p, e) == /\ e.bot_id = p.bot_id
                      /\ e.reference_id.tick = p.tick_id
                      /\ e.reference_id.arg = p.market_id
                      /\ e.amount = -p.stake
    IN  /\ \A p \in predictions : \E e \in stakes : Pair(p, e)
        /\ \A e \in stakes : \E p \in predictions : Pair(p, e)

\* a tick that failed has left nothing but the entry of its error boundary
FailedLeavesNothing ==
    \A d \in Drivers :
        (HasReturned(d) /\ tk[d].reason # "") =>
           /\ \A e \in TickEntries(tk[d]) :
                 /\ TickEntries(tk[d]) = {e}
                 /\ e.reference_id.tag \in {"ERROR", "LIQUIDATION"}
           /\ \A p \in predictions :
                 ~(p.bot_id = tk[d].bot_id /\ p.tick_id = tk[d].tick_id)

\* C17: the ledger entries, predictions, market status changes and cached
\* balance of a tick's transaction reach the database in one step, its
\* commit, or never; a failed tick leaves none of them; predictions and
\* MARKET_STAKE entries are committed in pairs
C17_TickAtomic ==
    [][/\ \A d \in Drivers :
             tk'[d] # tk[d] =>
                \/ UNCHANGED <<ledger, predictions, markets, bots,
                   daemon, maker, lookup>>
                \/ /\ tk[d].pc \in CommitPcs
                   /\ ledger' = ledger \cup Range(tk[d].entries)
                   /\ predictions' = predictions \cup tk[d].preds
                   /\ markets' = CommitMarkets(tk[d])
                   /\ bots' = CommitBots(tk[d])
       /\ StakePaired'
       /\ FailedLeavesNothing']_vars

\* one tick has committed a research win (stake, payout, prediction and the
\* market's resolution) and a later tick, its writes already under way, has
\* failed and left nothing
C17_Witness ==
    /\ \E p \in predictions : p.status = "WIN"
    /\ \E m \in MarketIds : markets[m].status = "RESOLVED"
    /\ \E e \in ledger : e.transaction_type = "RESEARCH_PAYOUT"
    /\ \E d \in Drivers :
          /\ HasReturned(d) /\ tk[d].reason # "" /\ tk[d].ledger_written
          /\ TickEntries(tk[d]) = {}

\* what submit_research_answer does with a matching answer on an OPEN
\* market, the market's outcome being outcome(raw answer): the market is
\* RESOLVED with that outcome, the prediction is a WIN paying bounty + stake,
\* and MARKET_STAKE of -stake is followed by RESEARCH_PAYOUT of
\* +(bounty + stake); the commit writes the resolution
SubmitWins(d, outcome(_)) ==
    LET t == tk[d]
        u == tk'[d]
        m == t.answer.market
        raw == t.answer.answer
        payout == markets[m].bounty + RESEARCH_STAKE
        ran == u # t /\ faults' = faults /\ Raises(t) = ""
    IN  /\ (/\ t.pc = "rs_submit" /\ ran
             /\ RowStatus(t, m) = "OPEN"
             /\ Sha256(Strip(raw)) = AnswerHash(m)) =>
               /\ u.pc = "rs_payout"
               /\ m \in u.resolved
               /\ u.market_outcome = outcome(raw)
               /\ \E p \in u.preds \ t.preds :
                     /\ p.market_id = m /\ p.bot_id = t.bot_id
                     /\ p.status = "WIN" /\ p.payout = payout
                     /\ p.stake = RESEARCH_STAKE
               /\ Len(u.entries) = Len(t.entries) + 1
               /\ u.entries[Len(u.entries)].transaction_type = "MARKET_STAKE"
               /\ u.entries[Len(u.entries)].amount = -RESEARCH_STAKE
        /\ (t.pc = "rs_payout" /\ ran) =>
               LET n == Len(t.entries)
               IN  /\ u.result = "CORRECT"
                   /\ Len(u.entries) = n + 1
                   /\ t.entries[n].transaction_type = "MARKET_STAKE"
                   /\ u.entries[n + 1].transaction_type = "RESEARCH_PAYOUT"
                   /\ u.entries[n + 1].amount = payout
                   /\ u.entries[n + 1].sequence = t.entries[n].sequence + 1
        /\ (/\ t.pc \in CommitPcs \cup {"reread"} /\ u.pc = "done"
             /\ u.reason = "" /\ u.wrote > 0) =>
               \A r \in t.resolved :
                  /\ markets'[r].status = "RESOLVED"
                  /\ markets'[r].outcome = t.market_outcome

AsSubmitted(answer) == answer

\* C18 as stated: a matching answer on an OPEN knowledge market resolves the
\* market with outcome = the answer submitted, records a WIN paying
\* bounty + stake, and appends MARKET_STAKE then RESEARCH_PAYOUT
C18_OutcomeIsAnswer ==
    [][\A d \in Drivers : SubmitWins(d, AsSubmitted)]_vars

\* C18, amended: the market's outcome is the answer trimmed of surrounding
\* whitespace; the rest as stated
C18_OutcomeIsTrimmedAnswer ==
    [][\A d \in Drivers : SubmitWins(d, Strip)]_vars

\* the call has been committed: the market is RESOLVED with the trimmed
\* answer, the WIN prediction pays bounty + stake, the payout entry follows
\* the stake entry
C18_Witness ==
    \E d \in Drivers :
        /\ tk[d].pc = "done" /\ tk[d].result = "CORRECT"
        /\ markets["m1"].status = "RESOLVED"
        /\ markets["m1"].outcome = CanonicalAnswer
        /\ \E p \in predictions :
              p.status = "WIN" /\ p.payout = RESEARCH_BOUNTY + RESEARCH_STAKE
        /\ \E e, f \in ledger :
              /\ e.transaction_type = "MARKET_STAKE"
              /\ f.transaction_type = "RESEARCH_PAYOUT"
              /\ f.sequence = e.sequence + 1
              /\ f.amount = RESEARCH_BOUNTY + RESEARCH_STAKE

\* what submit_research_answer does when the answer does not match or the
\* market is not OPEN in the database
SubmitLoses(d) ==
    LET t == tk[d]
        u == tk'[d]
        m == t.answer.market
        ran == t.pc = "rs_submit" /\ u # t /\ faults' = faults
                  /\ Raises(t) = ""
        matches == Sha256(Strip(t.answer.answer)) = AnswerHash(m)
    IN  /\ (ran /\ RowStatus(t, m) = "OPEN" /\ ~matches) =>
               /\ u.result = "WRONG"
               /\ u.resolved = t.resolved
               /\ \E p \in u.preds \ t.preds :
                     /\ u.preds = t.preds \cup {p}
                     /\ p.market_id = m /\ p.bot_id = t.bot_id
                     /\ p.status = "LOSS" /\ p.payout = 0
               /\ Len(u.entries) = Len(t.entries) + 1
               /\ u.entries[Len(u.entries)].transaction_type = "MARKET_STAKE"
               /\ u.entries[Len(u.entries)].amount = -RESEARCH_STAKE
        /\ (ran /\ RowStatus(t, m) # "OPEN") =>
               /\ u.result = "CLOSED"
               /\ u.entries = t.entries
               /\ u.preds = t.preds
               /\ u.resolved = t.resolved
        /\ (ran /\ u.resolved # t.resolved) => matches

ListingPcs == {"research", "portfolio"}

\* the list a tick is about to get holds only markets that are OPEN and
\* carry no prediction of its agent, soonest deadline first, none twice
ListingFresh ==
    \A d \in Drivers :
        tk[d].pc \in ListingPcs =>
           LET t == tk[d]
               L == get_active_markets_for_agent(t)
           IN  /\ \A i \in DOMAIN L :
                     /\ markets[L[i]].status = "OPEN"
                     /\ L[i] \notin t.resolved
                     /\ ~\E p \in predictions \cup t.preds :
                            p.bot_id = t.bot_id /\ p.market_id = L[i]
               /\ \A i, j \in DOMAIN L :
                     i < j => /\ Deadline(L[i]) <= Deadline(L[j])
                              /\ L[i] # L[j]

\* C20: get_active_markets_for_agent returns only OPEN markets on which the
\* agent has no MarketPrediction, by soonest deadline, and a committed
\* prediction is never removed, so a market the agent has staked on, a
\* WRONG research answer included, never appears in its list again
C20_StakedNeverListed ==
    [][ListingFresh' /\ predictions \subseteq predictions']_vars

\* the agent's WRONG answer on the knowledge market is committed, the market
\* is still OPEN, and a later tick's list holds the other market only
C20_Witness ==
    \E d \in Drivers :
        /\ tk[d].pc = "research"
        /\ \E p \in predictions :
              /\ p.bot_id = tk[d].bot_id /\ p.market_id = "m1"
              /\ p.status = "LOSS"
        /\ markets["m1"].status = "OPEN"
        /\ get_active_markets_for_agent(tk[d]) = <<"m2">>

\* the committed predictions of one tick on knowledge markets
KnowledgePredictions(a, tick) ==
    {p \in predictions :
        /\ p.bot_id = a /\ p.tick_id = tick
        /\ markets[p.market_id].source_type = "RESEARCH"}

\* the committed MARKET_STAKE entries of one tick written by
\* submit_research_answer
ResearchStakes(a, tick) ==
    {e \in ledger :
        /\ e.bot_id = a /\ e.reference_id.tick = tick
        /\ e.transaction_type = "MARKET_STAKE"
        /\ e.reference_id.tag = "RESEARCH"}

\* C21: one tick records at most one prediction on a knowledge market and
\* at most one research MARKET_STAKE, however many knowledge markets are
\* OPEN
C21_OneResearchPerTick ==
    \A a \in Agents, tick \in 1..(Max(MaxTicks, MaxSoloTicks) + 1) :
        /\ Cardinality(KnowledgePredictions(a, tick)) <= 1
        /\ Cardinality(ResearchStakes(a, tick)) <= 1


\* the lookup surcharges a tick has appended: committed rows and the rows of
\* its open transaction
LookupFees(t) ==
    {e \in TickEntries(t) \cup Range(t.entries) :
        e.transaction_type = "RESEARCH_LOOKUP_FEE"}

PortfolioStakes(t) ==
    {e \in Range(t.entries) :
        e.transaction_type = "MARKET_STAKE" /\ e.reference_id.tag = "MARKET"}

\* the agent's balance when the portfolio step began: every row the session
\* sees apart from the stakes of the step
PortfolioStartBalance(t) ==
    get_balance(Visible(t) \ PortfolioStakes(t), t.bot_id)

BetsCapped(d) ==
    LET t == tk[d]
        S == PortfolioStakes(t)
    IN  /\ Cardinality(S) <= MAX_MARKETS_PER_TICK
        /\ \A e \in S : e.amount < 0
        /\ \A e1, e2 \in S :
              e1.reference_id.arg = e2.reference_id.arg => e1 = e2
        /\ (0 - SumAmounts(S)) * 100
              <= MAX_TOTAL_STAKE_RATIO * PortfolioStartBalance(t)

\* C23: after every turn of the portfolio loop the tick has placed at most
\* MAX_MARKETS_PER_TICK (3) bets, each with a positive stake, no two on the
\* same market, and their stakes sum to at most MAX_TOTAL_STAKE_RATIO (20%)
\* of the agent's balance at the start of the portfolio step.
C23_PortfolioCaps ==
    [][\A d \in Drivers : tk[d].pc = "pf_bet" => BetsCapped(d)']_vars

C23_Witness ==
    \E d \in Drivers :
        /\ Cardinality(PortfolioStakes(tk[d])) = MAX_MARKETS_PER_TICK
        /\ BetsCapped(d)


\* what a returned tick did, read off the entries it committed
TickDid(t, transaction_type, tag) ==
    \E e \in TickEntries(t) :
        e.transaction_type = transaction_type /\ e.reference_id.tag = tag

\* the outcome the precedence RESEARCH > PORTFOLIO > WAGER > HEARTBEAT names,
\* LIQUIDATION above all
ByPrecedence(t) ==
    IF \E e \in TickEntries(t) : e.transaction_type = "LIQUIDATION"
    THEN "LIQUIDATION"
    ELSE IF TickDid(t, "MARKET_STAKE", "RESEARCH") THEN "RESEARCH"
    ELSE IF TickDid(t, "MARKET_STAKE", "MARKET") THEN "PORTFOLIO"
    ELSE IF \E e \in TickEntries(t) : e.transaction_type = "WAGER"
    THEN "WAGER"
    ELSE "HEARTBEAT"

\* C24: a tick that returned without reaching the error boundary returns the
\* outcome of the precedence RESEARCH over PORTFOLIO over WAGER over
\* HEARTBEAT, LIQUIDATION above all: RESEARCH when it both submitted a
\* research answer and placed portfolio bets.
C24_OutcomePrecedence ==
    \A d \in Drivers :
        (HasReturned(d) /\ tk[d].reason = "" /\ tk[d].ret # "")
            => tk[d].ret = ByPrecedence(tk[d])


\* the step of driver d publishes a stream event
Publishes(d) == tk[d].event = "" /\ tk'[d].event # ""

\* C25: a step that publishes a stream event for a tick leaves every ledger
\* entry and every prediction the tick's transaction held in the committed
\* store, so an event follows the commit of the writes it announces and no
\* event is published for writes that were rolled back.
C25_PublishAfterCommit ==
    [][\A d \in Drivers :
          Publishes(d) =>
             /\ Range(tk[d].entries) \subseteq ledger'
             /\ tk[d].preds \subseteq predictions'
             /\ tk'[d].entries = <<>>
             /\ Cardinality({e \in ledger' :
                               /\ e.bot_id = tk[d].bot_id
                               /\ e.reference_id.tick = tk[d].tick_id})
                   >= tk'[d].wrote]_vars

C25_Witness ==
    \E d \in Drivers :
        /\ HasReturned(d) /\ tk[d].event = "PORTFOLIO"
        /\ tk[d].wrote >= 2
        /\ Cardinality(TickEntries(tk[d])) = tk[d].wrote


\* C26: once the shutdown flag is set run_daemon reaches its exit; it begins
\* no further cycle, stays in an execute_tick that is in progress until that
\* tick has returned, and on its next reading of the flag in the sleep loop
\* leaves the loop without a further one-second sleep.
C26_ShutdownTerminates ==
    /\ daemon.shutdown ~> daemon.pc = "exit"
    /\ [][daemon.shutdown => daemon'.cycle = daemon.cycle]_vars
    /\ [][(daemon.shutdown /\ Active(tk["ticker"]))
             => (daemon'.pc = "tick" /\ tk'["ticker"].pc # "idle")]_vars
    /\ [][(daemon.shutdown /\ daemon.pc = "sleep" /\ daemon' # daemon)
             => daemon'.pc = "loop"]_vars
    /\ [][daemon.shutdown /\ daemon.pc = "sleeping"
             => daemon'.slept <= daemon.slept + 1]_vars

C26_Witness ==
    /\ daemon.pc = "exit"
    /\ daemon.frame = "tick"
    /\ HasReturned("ticker")
    /\ tk["ticker"].ret # ""

\* the places of a fleet sweep in progress: between two bots, and inside
\* an execute_tick
SweepFrames == {"sweep", "tick"}

\* C27: when the shutdown signal arrived during a fleet sweep, the daemon
\* leaves the sweep for the sleep loop only when every bot it enumerated for
\* the cycle has been ticked.
C27_SweepCompletes ==
    [][(daemon.pc = "sweep" /\ daemon'.pc = "sleep"
          /\ daemon.frame \in SweepFrames)
          => queue["ticker"] = <<>>]_vars


\* C28: ensure_open_markets(min_open) returns; by then, and at any moment
\* before, it has made at most 3 * min_open generator attempts and created at
\* most max(0, min_open - OPEN markets counted at the call) markets, none
\* when min_open markets were already OPEN.
C28_MakerBounded ==
    /\ (maker.pc \in {"count", "loop"}) ~> (maker.pc = "done")
    /\ [](maker.pc \in {"loop", "done"} =>
             /\ maker.attempts <= 3 * maker.min_open
             /\ maker.created
                   <= Max(0, maker.min_open - maker.current_count)
             /\ Len(maker.added) = maker.created
             /\ maker.current_count >= maker.min_open
                   => maker.created = 0 /\ maker.attempts = 0)

C28_Witness ==
    /\ maker.pc = "done"
    /\ maker.min_open = MaxMinOpen
    /\ maker.attempts = 3 * maker.min_open
    /\ maker.created = 1
    /\ maker.current_count = 0

\* the responses that the loop answers with a wait and another turn
Retried == {"429", "timeout"}

\* the requests, the waits and the result of a call follow the retry policy:
\* at most max_retries requests, each but the first after a 429 or a timeout
\* and after a completed wait of base_backoff * 2^attempt, nil when the
\* attempts are used up, and never an article from a 404
RetryPolicy ==
    /\ lookup.requests = Len(lookup.responses)
    /\ lookup.requests <= lookup.max_retries
    /\ \A i \in 1..(Len(lookup.responses) - 1) :
          /\ lookup.responses[i] \in Retried
          /\ Len(lookup.waits) >= i
    /\ \A i \in DOMAIN lookup.waits :
          lookup.waits[i] = lookup.base_backoff * (2 ^ (i - 1))
    /\ lookup.pc = "request" => Len(lookup.waits) = lookup.requests
    /\ (/\ lookup.pc = "done"
        /\ \A i \in DOMAIN lookup.responses : lookup.responses[i] \in Retried)
          => /\ lookup.result = "nil"
             /\ lookup.requests = lookup.max_retries
    /\ \A i \in DOMAIN lookup.responses :
          lookup.responses[i] = "404"
             => /\ i = Len(lookup.responses)
                /\ lookup.pc = "done"
                /\ lookup.result = "nil"
                /\ lookup.fallbacks = 0
                /\ Len(lookup.waits) = i - 1

\* C29: knowledge_lookup makes at most max_retries requests to the primary
\* endpoint and returns nil when they are used up; a request after the first
\* follows a 429 or a timeout and a wait of base_backoff * 2^attempt; a call
\* that a 404 ends has made exactly one request and yields no result.
C29_LookupPolicy ==
    /\ RetryPolicy
    /\ (lookup.pc = "done" /\ "404" \in Range(lookup.responses))
          => lookup.requests = 1

\* C29, amended: knowledge_lookup returns; it makes at most max_retries
\* requests to the primary endpoint and returns nil when they are used up; a
\* request after the first follows a 429 or a timeout and a wait of
\* base_backoff * 2^attempt; a 404 ends the call at once with nil, with no
\* further request, wait or fallback, after exactly one request when it
\* answers the first.
C29_LookupPolicyAmended ==
    /\ (lookup.pc # "off") ~> (lookup.pc = "done")
    /\ [](/\ RetryPolicy
          /\ (lookup.responses # <<>> /\ lookup.responses[1] = "404")
                => lookup.requests = 1)

C29_Witness ==
    /\ lookup.pc = "done"
    /\ lookup.max_retries = MaxRetries
    /\ lookup.responses = <<"429", "timeout", "404">>
    /\ lookup.waits = <<lookup.base_backoff, 2 * lookup.base_backoff>>
    /\ lookup.base_backoff = 2

\* C30: no two OPEN markets carry the same description.
C30_OpenDescriptionsUnique ==
        \A i, j \in DOMAIN markets :
            (/\ i # j
             /\ markets[i].status = "OPEN"
             /\ markets[j].status = "OPEN"
             /\ "description" \in DOMAIN markets[i]
             /\ "description" \in DOMAIN markets[j])
                => markets[i].description # markets[j].description

\* C31: for every committed ledger entry, the hash recomputed over the
\* stored fields of the entry is the stored hash.
C31_DigestReproducible ==
    \A e \in ledger :
        "timestamp" \in DOMAIN e => Recomputed(e) = e.hash

\* C32: in enforce mode, once the error path of a tick has committed its
\* entry, the cached balance of the agent equals its chain sum, and both are
\* 0 when the entry is a LIQUIDATION, whatever the cache was before the tick:
\* the error path decides on the chain sum.
C32_ErrorPathOnChainSum ==
    mode = "enforce" =>
        \A d \in Drivers :
            (/\ HasReturned(d)
             /\ tk[d].reason # ""
             /\ TickEntries(tk[d]) # {})
               => /\ CacheSynced(tk[d].bot_id)
                  /\ (\E e \in TickEntries(tk[d]) :
                         e.transaction_type = "LIQUIDATION")
                        => /\ bots[tk[d].bot_id].balance = 0
                           /\ get_balance(ledger, tk[d].bot_id) = 0

\* C33: a chain that holds a REVIVE entry holds exactly one, of a positive
\* amount, at the sequence after its predecessor's and linked to its
\* predecessor's hash; the sequences of the chain are 1..n, every entry links
\* to the one before, and the cached balance equals the chain sum whenever
\* no tick of the agent is under way.
C33_ReviveKeepsChain ==
    \A a \in Agents :
        LET c == ChainOf(ledger, a)
            revives == {e \in c : e.transaction_type = "REVIVE"}
        IN  revives # {} =>
              /\ Cardinality(revives) = 1
              /\ \A e \in revives : e.amount > 0 /\ e.sequence > 1
              /\ {e.sequence : e \in c} = 1..Cardinality(c)
              /\ \A e \in c :
                    IF e.sequence = 1 THEN e.previous_hash = ZeroHash
                    ELSE \E p \in c : /\ p.sequence = e.sequence - 1
                                      /\ e.previous_hash = p.hash
              /\ (\A d \in Drivers : ~Active(tk[d])) => CacheSynced(a)

\* C34: in enforce mode the chain sum of an agent is not negative once a
\* tick of the agent has returned, and every LIQUIDATION entry has an amount
\* of at most 0.
C34_NeverNegative ==
    mode = "enforce" =>
        /\ \A d \in Drivers :
              (HasReturned(d) /\ tk[d].loaded)
                 => get_balance(ledger, tk[d].bot_id) >= 0
        /\ \A e \in ledger :
              e.transaction_type = "LIQUIDATION" => e.amount <= 0

\* C35: no knowledge market has WIN predictions of two different agents, and
\* no two RESEARCH_PAYOUT entries in the chains of different agents refer to
\* one market.
C35_BountyPaidOnce ==
    \A m \in DOMAIN markets :
        /\ \A p, q \in predictions :
              (/\ p.market_id = m /\ q.market_id = m
               /\ p.status = "WIN" /\ q.status = "WIN")
                 => p.bot_id = q.bot_id
        /\ \A e, f \in ledger :
              (/\ e.transaction_type = "RESEARCH_PAYOUT"
               /\ f.transaction_type = "RESEARCH_PAYOUT"
               /\ e.reference_id.arg = m /\ f.reference_id.arg = m)
                 => e.bot_id = f.bot_id

\* C36: among the committed MarketPrediction rows an agent has at most one
\* per market.
C36_OnePredictionPerMarket ==
    \A p, q \in predictions :
        (p.bot_id = q.bot_id /\ p.market_id = q.market_id) => p = q

\* C37: no committed stake of place_market_bet (MARKET_STAKE with a
\* TICK:<id>:MARKET:<market> reference) is on a knowledge market.
C37_NoBetOnKnowledgeMarket ==
    \A e \in ledger :
        (/\ e.transaction_type = "MARKET_STAKE"
         /\ e.reference_id.tag = "MARKET")
            => markets[e.reference_id.arg].source_type # "RESEARCH"

\* the step in which the ticker's tick of agent a commits
IdleTickCommits(a) ==
    \E d \in Ticker :
        /\ tk[d].bot_id = a
        /\ tk[d].pc \in CommitPcs
        /\ tk'[d].pc = "done"

\* C38: in enforce mode every committed tick of an idle ALIVE agent either
\* lowers the chain sum by exactly the (positive) entropy fee of the agent's
\* idle streak and leaves the agent ALIVE, or finds the chain sum below that
\* fee and leaves the agent DEAD; and an ALIVE agent that the ticker keeps
\* ticking is eventually DEAD.
C38_IdleAgentLiquidated ==
    /\ [][\A a \in Agents :
            (mode = "enforce" /\ IdleTickCommits(a)) =>
               LET fee == calculate_entropy_fee(get_idle_streak(ledger, a))
                   balance == get_balance(ledger, a)
               IN  /\ fee > 0
                   /\ IF balance < fee
                      THEN bots'[a].status = "DEAD"
                      ELSE /\ bots'[a].status = "ALIVE"
                           /\ get_balance(ledger', a) = balance - fee]_vars
    /\ \A a \in Agents :
          (mode = "enforce" /\ bots[a].status = "ALIVE")
             ~> (bots[a].status = "DEAD")

\* an agent liquidated after thirteen heartbeats, the last of them at the
\* third fee tier
C38_Witness ==
    \E a \in Agents :
        /\ mode = "enforce"
        /\ bots[a].status = "DEAD"
        /\ Cardinality({e \in ChainOf(ledger, a) :
                           e.transaction_type = "HEARTBEAT"}) = 13
        /\ \E e \in ChainOf(ledger, a) :
              e.transaction_type = "HEARTBEAT" /\ e.amount = -10000
        /\ \E e \in ChainOf(ledger, a) : e.transaction_type = "LIQUIDATION"

\* the idle streak and the fee execute_tick hands to its metrics collector
\* (set_idle, record_phantom_enforcement) agree with n idle ticks before it
RecordedAfter(t, n) ==
    /\ t.idle_streak = n
    /\ t.tick_entropy_fee = calculate_entropy_fee(n)

\* C39: in observe mode the n-th consecutive idle tick of an agent records
\* the idle streak n - 1 and the phantom fee of that streak, as the n-th
\* idle tick of enforce mode does.
C39_PhantomMatchesEnforce ==
    mode = "observe" =>
        \A d \in Ticker :
            (tk[d].pc = "commit" /\ tk[d].loaded)
               => RecordedAfter(tk[d], tk[d].tick_id - 1)

\* the enforce-mode ticks the observe-mode record is compared with
EnforceRecordsStreak ==
    mode = "enforce" =>
        \A d \in Ticker :
            (tk[d].pc = "commit" /\ tk[d].loaded)
               => RecordedAfter(tk[d], tk[d].tick_id - 1)

\* the committed entries of agent a
OwnEntries(rows, a) == {e \in rows : e.bot_id = a}

\* C40: a step of a tick for agent A leaves every other agent's bots row
\* and committed entries as they were, and under every interleaving of the
\* two drivers' ticks each agent's chain carries the sequences 1..n with
\* every entry linked to the hash of its predecessor.
C40_TickTouchesOwnAgentOnly ==
    /\ [][\A d \in Drivers :
            (Active(tk[d]) /\ tk'[d] # tk[d]) =>
               \A b \in Fleet \ {tk[d].bot_id} :
                   /\ bots'[b] = bots[b]
                   /\ OwnEntries(ledger', b) = OwnEntries(ledger, b)]_vars
    /\ [](\A a \in Fleet :
            LET c == OwnEntries(ledger, a)
            IN  /\ {e.sequence : e \in c} = 1..Cardinality(c)
                /\ \A e \in c :
                      IF e.sequence = 1 THEN e.previous_hash = ZeroHash
                      ELSE \E p \in c : /\ p.sequence = e.sequence - 1
                                        /\ e.previous_hash = p.hash)

\* the two drivers have ticked different agents, the second tick is about
\* to commit its entries while the first has committed its own
C40_Witness ==
    \E d \in Drivers :
        /\ HasReturned(d) /\ tk[d].wrote > 0
        /\ tk[Other(d)].pc \in CommitPcs
        /\ tk[Other(d)].entries # <<>>
        /\ tk[Other(d)].bot_id # tk[d].bot_id
        /\ tk[Other(d)].tick_id < tk[d].tick_id

====
